---- MODULE Spec2Model ----
(***************************************************************************)
(* LifeOps: the Fitbit OAuth token lifecycle (token cache file, lock       *)
(* marker file, seeding, refresh and rotation) as run by concurrent pull   *)
(* jobs.  Three managers share data/fitbit_token.json and                  *)
(* data/.fitbit_token.lock:                                                *)
(*   "auth"  - fitbit_auth.get_valid_access_token                          *)
(*   "steps" - pull_fitbit_steps.get_valid_access_token                    *)
(*   "heart" - pull_fitbit_heart.get_valid_access_token                    *)
(* Times are seconds.  Tokens are numbers: 0 is Python's None, a positive  *)
(* number n is the n-th refresh token the provider issued (and the access  *)
(* token issued with it).                                                  *)
(***************************************************************************)
EXTENDS Integers, FiniteSets, Sequences, Bags, TLC

\* ---------------------------------------------------------------- bounds
MaxCalls == 2
MaxIssue == 3
MaxTicks == 2
MaxCrashes == 1

\* the processes, numbered in the order of their first call
Procs == {1, 2}
Free == 0
Kinds == {"auth", "steps", "heart"}
SeedOnce == {"auth", "steps"}
TickSteps == {90}
ExpiresIn == {0, 90, 300}
EnvTokens == {0, 1}

\* ------------------------------------------------------- program constants
None == 0
BadExp == -1
MarginS == 120
LockTimeoutS == 60
EnvUserId == 0

\* ------------------------------------------------------------------ files
\* The content of a path: absent, an empty file, an unparseable file, or one
\* JSON record.  seeded: the record has the seeded_at_utc / note keys.
NoFile == [st |-> "absent", rt |-> None, at |-> None, uid |-> None, exp |-> None, seeded |-> FALSE]
EmptyFile == [NoFile EXCEPT !.st = "empty"]
Garbled == [NoFile EXCEPT !.st = "garbled"]

Exists(f) == f.st # "absent"

MutSeedRecord(e) == [st |-> "ok", rt |-> e, at |-> e, uid |-> EnvUserId, exp |-> 300, seeded |-> TRUE]

\* what the seeding step writes when the cache file is missing
SeedRecord(e) == [st |-> "ok", rt |-> e, at |-> None, uid |-> EnvUserId, exp |-> None, seeded |-> TRUE]

\* pull_fitbit_heart: load_token_cache() or {}
LoadOrEmpty(f) == IF f.st = "ok" THEN f ELSE [NoFile EXCEPT !.st = "ok"]

\* pull_fitbit_heart: the cache rewritten around the refresh token of .env
Reseed(c, e) == [c EXCEPT !.rt = e, !.at = None, !.exp = None]

\* load_token_cache followed by "if not cache": the record, or the error
LoadError(k, f) ==
  IF f.st = "ok" THEN "none"
  ELSE IF f.st = "absent" THEN "CacheMissing"
  ELSE IF k = "auth" THEN "JSONDecodeError"
  ELSE "CacheMissing"

\* ------------------------------------------------------------ the decision
MutNeedsRefreshStrict(c, t) ==
  IF c.at # None /\ c.exp # None
  THEN (IF c.exp = BadExp THEN TRUE ELSE t > c.exp - MarginS)
  ELSE TRUE

MutNeedsRefreshAlways(c, t) == TRUE

NeedsRefresh(c, t) ==
  IF c.at # None /\ c.exp # None
  THEN (IF c.exp = BadExp THEN TRUE ELSE t >= c.exp - MarginS)
  ELSE TRUE

MutHasRefreshToken(c) == TRUE

\* refresh_token = cache.get("refresh_token"); if not refresh_token: raise
HasRefreshToken(c) == c.rt # None

\* --------------------------------------------------------------- provider
Rejected == [status |-> "rejected", at |-> None, rt |-> None, uid |-> None, ein |-> 0]

\* The answers the token endpoint can give to refresh token t when lv is the
\* live refresh token and n the next token to issue.  "lost": the provider
\* accepted and rotated, the reply never arrived (requests raises).  The
\* user_id of an answer is absent or 2, which no cache file of Init holds.
Responses(t, lv, n, room) ==
  IF t # lv \/ ~room THEN {Rejected}
  ELSE {Rejected}
       \cup {[status |-> "lost", at |-> None, rt |-> n, uid |-> None, ein |-> 0]}
       \cup {[status |-> "ok", at |-> n, rt |-> n, uid |-> u, ein |-> e] : u \in {0, 2}, e \in ExpiresIn}
       \cup {[status |-> "ok", at |-> None, rt |-> n, uid |-> None, ein |-> 0],
             [status |-> "ok", at |-> n, rt |-> None, uid |-> None, ein |-> 0],
             [status |-> "ok", at |-> None, rt |-> None, uid |-> None, ein |-> 0]}

\* what kind of answer r is
Classify(r) ==
  IF r.status # "ok" THEN r.status
  ELSE IF r.at = None /\ r.rt = None THEN "ok_neither"
  ELSE IF r.at = None THEN "ok_no_access"
  ELSE IF r.rt = None THEN "ok_no_refresh"
  ELSE "ok_complete"

\* the provider rotates when it issues a new refresh token
Rotates(r) == r.status = "lost" \/ (r.status = "ok" /\ r.rt # None)

MutRefreshState(r, t) ==
  [at |-> r.at, rt |-> r.rt, uid |-> r.uid, exp |-> IF r.ein # 0 THEN r.ein ELSE None]

\* refresh_fitbit_token's return value for a 200 response received at time t
RefreshState(r, t) ==
  [at |-> r.at, rt |-> r.rt, uid |-> r.uid, exp |-> IF r.ein # 0 THEN t + r.ein ELSE None]

MutIncomplete(ns) == ns.rt = None

\* the checks made on new_state before anything is saved
Incomplete(ns) == ns.at = None \/ ns.rt = None

MutCarryUser(ns, c) == ns

\* new_state["user_id"] = user_id when the response has none
CarryUser(ns, c) == [ns EXCEPT !.uid = IF ns.uid = None THEN c.uid ELSE ns.uid]

MutMerge(c, ns) == [c EXCEPT !.at = ns.at, !.uid = ns.uid, !.exp = ns.exp]

\* {**cache, **new_state}
Merge(c, ns) == [c EXCEPT !.at = ns.at, !.rt = ns.rt, !.uid = ns.uid, !.exp = ns.exp]

\* ------------------------------------------------------------------- lock
MutCanCreate(l) == TRUE

\* os.open(O_CREAT | O_EXCL): succeeds only when the marker does not exist
CanCreate(l) == l = Free

MutRelease(l) == l

\* FileLock.release: unlink the marker if it exists
Release(l) == Free

MutReleaseRaises(l, p) == IF l = p THEN "none" ELSE "ReleaseError"

\* FileLock.release: the exception that leaves release() when process p
\* releases while the marker is l (its own, gone, or another's): whatever
\* close or unlink raises is caught
ReleaseRaises(l, p) == "none"

\* FileLock.__exit__: what the caller of the with block observes when the
\* block ended with res
Exit(res, l, p) == IF ReleaseRaises(l, p) = "none" THEN res ELSE ReleaseRaises(l, p)

\* ------------------------------------------------------------------ state
VARIABLES now, cache, tmp, lock, live, issued, env, proc, calls, crashes,
          clean, lostRot, prevRet

\* the pull jobs: the job processes, the Parquet file of each source, the
\* WITHINGS_REFRESH_TOKEN line of .env, the Withings provider's live and
\* last issued refresh token, the clock of ingested_at, the refresh requests
\* sent to Withings so far (the token each carried, whether that token had
\* already been used up, whether the answer got lost), the job runs started
VARIABLES job, store, wenv, wlive, wissued, stamp, wsent, runs

tokenVars == <<now, cache, tmp, lock, live, issued, env, proc, calls, crashes,
               clean, lostRot, prevRet>>

jobVars == <<job, store, wenv, wlive, wissued, stamp, wsent, runs>>

\* the tools around the jobs: the text of a .env file and the calls of
\* update_env_value made on it; the table raw_withings_weight of the DuckDB
\* database, the upserts made so far, and how the database engine treats
\* several source rows of one key; the bootstrap run
VARIABLES dotenv, edits, wdb, ups, engine, boot

toolVars == <<dotenv, edits, wdb, ups, engine, boot>>

vars == <<tokenVars, jobVars, toolVars>>

\* the job processes, the sources they pull, the dates of the pulled range
Jobs == {1, 2}
Sources == {"steps", "heart", "sleep", "weight"}
Fitbit == {"steps", "heart", "sleep"}
Daily == {"steps", "heart"}
Days == {1, 2}
Vals == {1, 2}

\* no answer of the Withings token endpoint
NoBody == [status |-> "none", at |-> None, rt |-> None]

\* a job process that has not run: src the source it pulls, rt the
\* WITHINGS_REFRESH_TOKEN its environment holds, at the access token, body
\* the token endpoint's answer, fetched / fetchFailed the provider fetches
\* that succeeded / whether one failed, rows the extracted rows, existing
\* and t the loaded table and ingested_at of upsert_to_parquet, ret its
\* return value, status the exit status, err the step that raised, wrote
\* whether the run overwrote the Parquet file
IdleJob ==
  [pc |-> "idle", src |-> "steps", rt |-> None, at |-> None, body |-> NoBody,
   fetched |-> 0, fetchFailed |-> FALSE, rows |-> <<>>, existing |-> EmptyBag, t |-> 0,
   ret |-> <<0, 0>>, status |-> "none", err |-> "none", wrote |-> FALSE]

\* no pull job has run
JobsAtRest ==
  /\ job = [j \in Jobs |-> IdleJob]
  /\ store = [s \in Sources |-> EmptyBag]
  /\ wenv = None
  /\ wlive = 1
  /\ wissued = 1
  /\ stamp = 0
  /\ wsent = <<>>
  /\ runs = 0

\* no .env file
NoEnvFile == [st |-> "absent", text |-> <<>>]

\* a bootstrap script that has not run: which provider, the state generated
\* for the run, what the callback handler has stored (code, error, returned
\* state; "" for None), the state parameter of the request that delivered
\* the stored code, the user id written to .env, how many requests the
\* listener has handled, and how the run ended
IdleBoot ==
  [pc |-> "idle", who |-> "none", state |-> "", code |-> "", error |-> "",
   returned |-> "", cbstate |-> "", uid |-> "", handled |-> 0, result |-> "none"]

\* no tool has run
ToolsAtRest ==
  /\ dotenv = NoEnvFile
  /\ edits = <<>>
  /\ wdb = {}
  /\ ups = <<>>
  /\ engine = "error"
  /\ boot = IdleBoot

NoTok == <<None, None>>

\* no answer received (yet)
NoResp == [status |-> "none", at |-> None, rt |-> None, uid |-> None, ein |-> 0]

Fresh ==
  [pc |-> "idle", kind |-> "auth", loaded |-> NoFile, data |-> NoFile, req |-> None,
   tok |-> NoTok, tAcq |-> 0, fd |-> "none", result |-> "none", net |-> 0,
   writes |-> 0, csWrites |-> 0, start |-> NoFile, foreign |-> FALSE, prev |-> NoTok,
   resp |-> "none", rsp |-> NoResp, tRef |-> 0, seedSaves |-> 0, lockSaves |-> 0,
   relMiss |-> FALSE]

\* a cache file left by an earlier run whose expires_at_utc does not parse
OldRecord == [st |-> "ok", rt |-> 1, at |-> 1, uid |-> 1, exp |-> BadExp, seeded |-> TRUE]

InitCaches == {NoFile, SeedRecord(1), OldRecord}

Init ==
  /\ now = 0
  /\ cache \in InitCaches
  /\ tmp = NoFile
  /\ lock = Free
  /\ live = 1
  /\ issued = 1
  /\ env \in EnvTokens
  /\ proc = [p \in Procs |-> Fresh]
  /\ calls = 0
  /\ crashes = 0
  /\ clean = (cache.st = "ok" /\ cache.rt = live)
  /\ lostRot = FALSE
  /\ prevRet = NoTok
  /\ JobsAtRest
  /\ ToolsAtRest

\* the cached access token's expiry is more than the safety margin away
WellBeyondMargin(c, t) ==
  c.st = "ok" /\ c.at # None /\ c.exp # None /\ c.exp # BadExp /\ t < c.exp - MarginS

Active(p) == proc[p].pc \notin {"idle", "done", "crashed"}
InSeed(p) == proc[p].pc \in {"seed_open", "seed_write", "seed_replace"}
HoldsLock(p) == proc[p].pc \in {"sent", "save_write", "save_replace"}

\* everything a process forgets when its invocation ends
Done(p, res) ==
  [proc[p] EXCEPT !.pc = "done", !.result = res, !.data = NoFile, !.req = None,
                  !.loaded = NoFile, !.start = NoFile, !.foreign = FALSE, !.prev = NoTok,
                  !.fd = "none", !.tAcq = 0, !.rsp = NoResp, !.tRef = 0,
                  !.tok = IF res = "ok" THEN @ ELSE NoTok]

\* the invocation of p leaves the with block with res while the marker is l;
\* relMiss: the marker release() met was not the one p created
Leave(p, res, l) == [Done(p, Exit(res, l, p)) EXCEPT !.relMiss = (l # p)]

MutOutcome(tok) == "MissingAccountId"

MutOutcomeOk(tok) == "ok"

\* the last check and the return value of get_valid_access_token
Outcome(tok) == IF tok[1] # None /\ tok[2] # None THEN "ok" ELSE "MissingAccountId"

\* the other processes after the canonical cache file changed: an open
\* descriptor follows its inode (the replaced cache is orphaned, the
\* temporary file becomes the cache)
Others(p, renamed) ==
  [q \in Procs |->
     [proc[q] EXCEPT !.foreign = Active(q), !.prev = NoTok,
                     !.fd = IF ~renamed THEN @
                            ELSE IF @ = "cache" THEN "orphan"
                            ELSE IF @ = "tmp" THEN "cache" ELSE @]]

\* the other processes after the temporary file was opened (truncated) or
\* left half-written
Touched ==
  [q \in Procs |-> [proc[q] EXCEPT !.foreign = @ \/ Active(q)]]

\* ---------------------------------------------------------------- seeding
MutSeedPlan(k, f, e) ==
  IF e = None THEN [go |-> "fail", data |-> NoFile]
  ELSE IF ~Exists(f) THEN [go |-> "save", data |-> SeedRecord(e)]
  ELSE IF LoadOrEmpty(f).rt # e THEN [go |-> "save", data |-> Reseed(LoadOrEmpty(f), e)]
  ELSE [go |-> "acquire", data |-> NoFile]

MutSeedPlanNoEnv(k, f, e) ==
  IF Exists(f) THEN [go |-> "acquire", data |-> NoFile]
  ELSE [go |-> "save", data |-> SeedRecord(e)]

\* seed_cache_from_env_once, seed_refresh_token_from_env_if_needed (steps),
\* seed_refresh_token_from_env_if_needed (heart): what to do given the cache
\* file f and FITBIT_REFRESH_TOKEN e
SeedPlan(k, f, e) ==
  IF k = "heart"
  THEN IF e = None THEN [go |-> "fail", data |-> NoFile]
       ELSE IF ~Exists(f) THEN [go |-> "save", data |-> SeedRecord(e)]
       ELSE IF LoadOrEmpty(f).rt # e THEN [go |-> "save", data |-> Reseed(LoadOrEmpty(f), e)]
       ELSE [go |-> "acquire", data |-> NoFile]
  ELSE IF Exists(f) THEN [go |-> "acquire", data |-> NoFile]
       ELSE IF e = None THEN [go |-> "fail", data |-> NoFile]
       ELSE [go |-> "save", data |-> SeedRecord(e)]

\* get_valid_access_token is called: the seeding step looks at the cache file
Start(p, k) ==
  /\ proc[p].pc \in {"idle", "done"}
  /\ \A q \in Procs : q < p => proc[q].pc # "idle"
  /\ calls < MaxCalls
  /\ calls' = calls + 1
  /\ LET plan == SeedPlan(k, cache, env)
         me == [Fresh EXCEPT !.kind = k, !.start = cache,
                   !.prev = IF WellBeyondMargin(cache, now) THEN prevRet ELSE NoTok]
     IN proc' = [proc EXCEPT ![p] =
                   IF plan.go = "fail"
                   THEN [Fresh EXCEPT !.kind = k, !.pc = "done", !.result = "MissingBootstrapToken"]
                   ELSE IF plan.go = "save" THEN [me EXCEPT !.pc = "seed_open", !.data = plan.data]
                   ELSE [me EXCEPT !.pc = "acquire", !.tAcq = now]]
  /\ clean' = (clean /\ k = "auth")
  /\ UNCHANGED <<now, cache, tmp, lock, live, issued, env, crashes, lostRot, prevRet>>
  /\ UNCHANGED jobVars
  /\ UNCHANGED toolVars

\* ------------------------------------------------------- save_token_cache
FileAt(where) == IF where = "tmp" THEN tmp ELSE IF where = "cache" THEN cache ELSE EmptyFile

\* what a file holds after d is written at offset 0 through a descriptor
\* opened before the file got the content cur: d when the file is still
\* empty; otherwise d, or d followed by the tail of a longer cur
Overlay(d, cur) == IF cur.st = "empty" \/ cur = d THEN {d} ELSE {d, Garbled}

\* the seeding step's tmp.write_text, first half: open(tmp, "w") creates or
\* truncates the temporary file
SeedOpen(p) ==
  /\ proc[p].pc = "seed_open"
  /\ tmp' = EmptyFile
  /\ proc' = [Touched EXCEPT ![p] = [proc[p] EXCEPT !.fd = "tmp", !.pc = "seed_write"]]
  /\ UNCHANGED <<now, cache, lock, live, issued, env, calls, crashes, clean, lostRot, prevRet>>
  /\ UNCHANGED jobVars
  /\ UNCHANGED toolVars

\* tmp.write_text, second half: the record is written through the open
\* descriptor and the file is closed
SaveWrite(p) ==
  /\ proc[p].pc \in {"seed_write", "save_write"}
  /\ \E out \in Overlay(proc[p].data, FileAt(proc[p].fd)) :
       LET me == [proc[p] EXCEPT !.fd = "none",
                     !.pc = IF InSeed(p) THEN "seed_replace" ELSE "save_replace"]
       IN IF proc[p].fd = "cache"
          THEN /\ cache' = out
               /\ tmp' = tmp
               /\ prevRet' = NoTok
               /\ proc' = [Others(p, FALSE) EXCEPT ![p] =
                             [me EXCEPT !.writes = @ + 1,
                                        !.csWrites = IF lock = p THEN @ + 1 ELSE @]]
          ELSE /\ tmp' = IF proc[p].fd = "tmp" THEN out ELSE tmp
               /\ cache' = cache
               /\ prevRet' = prevRet
               /\ proc' = [proc EXCEPT ![p] = me]
  /\ UNCHANGED <<now, lock, live, issued, env, calls, crashes, clean, lostRot>>
  /\ UNCHANGED jobVars
  /\ UNCHANGED toolVars

MutSaveReplace(p) ==
  /\ proc[p].pc \in {"seed_replace", "save_replace"}
  /\ Exists(tmp)
  /\ proc[p].seedSaves + proc[p].lockSaves < 3
  /\ cache' = tmp
  /\ proc' = [proc EXCEPT ![p] = [@ EXCEPT !.seedSaves = IF InSeed(p) THEN @ + 1 ELSE @,
                                           !.lockSaves = IF InSeed(p) THEN @ ELSE @ + 1]]
  /\ UNCHANGED <<now, tmp, lock, live, issued, env, calls, crashes, clean, lostRot, prevRet>>
  /\ UNCHANGED jobVars
  /\ UNCHANGED toolVars

MutSaveCheckFirst(p, l) ==
  /\ proc[p].pc = "save_replace"
  /\ Outcome(proc[p].tok) # "ok"
  /\ proc' = [proc EXCEPT ![p] = Leave(p, Outcome(proc[p].tok), l)]
  /\ lock' = Release(l)
  /\ UNCHANGED <<now, cache, tmp, live, issued, env, calls, crashes, clean, lostRot, prevRet>>
  /\ UNCHANGED jobVars
  /\ UNCHANGED toolVars

\* tmp.replace(TOKEN_CACHE_PATH): atomic rename, FileNotFoundError when the
\* temporary file is gone.  After the seeding step's save the process goes on
\* to FileLock.acquire; after the refresh's save it makes the last check,
\* returns, and FileLock.__exit__ removes the marker.  l: the marker that
\* release() meets.
SaveReplaceWith(p, l) ==
  /\ proc[p].pc \in {"seed_replace", "save_replace"}
  /\ IF Exists(tmp)
     THEN /\ cache' = tmp
          /\ tmp' = NoFile
          /\ LET me == [proc[p] EXCEPT !.writes = @ + 1,
                                       !.csWrites = IF lock = p THEN @ + 1 ELSE @,
                                       !.seedSaves = IF InSeed(p) THEN @ + 1 ELSE @,
                                       !.lockSaves = IF InSeed(p) THEN @ ELSE @ + 1]
             IN IF InSeed(p)
                THEN /\ proc' = [Others(p, TRUE) EXCEPT ![p] = [me EXCEPT !.pc = "acquire", !.tAcq = now]]
                     /\ lock' = lock
                     /\ prevRet' = NoTok
                ELSE /\ proc' = [Others(p, TRUE) EXCEPT ![p] =
                                   [Leave(p, Outcome(proc[p].tok), l) EXCEPT !.writes = me.writes, !.csWrites = me.csWrites,
                                                                           !.lockSaves = me.lockSaves]]
                     /\ lock' = Release(l)
                     /\ prevRet' = IF Outcome(proc[p].tok) = "ok" THEN proc[p].tok ELSE NoTok
     ELSE /\ proc' = [proc EXCEPT ![p] = IF HoldsLock(p) THEN Leave(p, "FileNotFoundError", l)
                                         ELSE Done(p, "FileNotFoundError")]
          /\ lock' = IF HoldsLock(p) THEN Release(l) ELSE lock
          /\ UNCHANGED <<cache, tmp, prevRet>>
  /\ UNCHANGED <<now, live, issued, env, calls, crashes, clean, lostRot>>
  /\ UNCHANGED jobVars
  /\ UNCHANGED toolVars

SaveReplace(p) == SaveReplaceWith(p, lock)

\* ------------------------------------------------- the critical section
\* FileLock.acquire succeeds; load_token_cache; the expiry check; then either
\* the cached pair is returned (and the marker removed) or the refresh
\* request goes out
Acquire(p) ==
  /\ proc[p].pc = "acquire"
  /\ CanCreate(lock)
  /\ LET err == LoadError(proc[p].kind, cache)
         needs == NeedsRefresh(cache, now)
         tok == <<cache.at, cache.uid>>
     IN IF err # "none"
        THEN /\ proc' = [proc EXCEPT ![p] = Leave(p, err, p)]
             /\ lock' = Release(p)
             /\ prevRet' = prevRet
        ELSE IF needs /\ ~HasRefreshToken(cache)
        THEN /\ proc' = [proc EXCEPT ![p] = Leave(p, "MissingRefreshToken", p)]
             /\ lock' = Release(p)
             /\ prevRet' = prevRet
        ELSE IF needs
        THEN /\ proc' = [proc EXCEPT ![p] =
                           [@ EXCEPT !.pc = "sent", !.loaded = cache, !.req = cache.rt,
                                     !.net = @ + 1]]
             /\ lock' = p
             /\ prevRet' = prevRet
        ELSE /\ proc' = [proc EXCEPT ![p] = [Leave(p, Outcome(tok), p) EXCEPT !.tok = IF Outcome(tok) = "ok" THEN tok ELSE NoTok]]
             /\ lock' = Release(p)
             /\ prevRet' = IF Outcome(tok) = "ok" THEN tok ELSE NoTok
  /\ UNCHANGED <<now, cache, tmp, live, issued, env, calls, crashes, clean, lostRot>>
  /\ UNCHANGED jobVars
  /\ UNCHANGED toolVars

MutAcquireTimeout(p) ==
  /\ proc[p].pc = "acquire"
  /\ ~CanCreate(lock)
  /\ now - proc[p].tAcq > LockTimeoutS
  /\ proc' = [proc EXCEPT ![p] = Done(p, "LockTimeout")]
  /\ lock' = Free
  /\ UNCHANGED <<now, cache, tmp, live, issued, env, calls, crashes, clean, lostRot, prevRet>>
  /\ UNCHANGED jobVars
  /\ UNCHANGED toolVars

\* FileLock.acquire, a failed attempt after the timeout has elapsed
AcquireTimeout(p) ==
  /\ proc[p].pc = "acquire"
  /\ ~CanCreate(lock)
  /\ now - proc[p].tAcq > LockTimeoutS
  /\ proc' = [proc EXCEPT ![p] = Done(p, "LockTimeout")]
  /\ UNCHANGED <<now, cache, tmp, lock, live, issued, env, calls, crashes, clean, lostRot, prevRet>>
  /\ UNCHANGED jobVars
  /\ UNCHANGED toolVars

MutRefresh(p) ==
  /\ proc[p].pc = "sent"
  /\ proc[p].net < 3
  /\ proc' = [proc EXCEPT ![p] = [@ EXCEPT !.net = @ + 1]]
  /\ UNCHANGED <<now, cache, tmp, lock, live, issued, env, calls, crashes, clean, lostRot, prevRet>>
  /\ UNCHANGED jobVars
  /\ UNCHANGED toolVars

\* refresh_fitbit_token: the provider answers; the answer is validated and
\* merged into the loaded record; save_token_cache opens the temporary file.
\* l: the marker that release() meets when the answer ends the invocation
RefreshWith(p, l) ==
  /\ proc[p].pc = "sent"
  /\ \E r \in Responses(proc[p].req, live, issued + 1, issued < MaxIssue) :
       LET ns == CarryUser(RefreshState(r, now), proc[p].loaded) IN
       /\ issued' = IF r.status = "rejected" THEN issued ELSE issued + 1
       /\ live' = IF Rotates(r) THEN issued + 1 ELSE live
       /\ lostRot' = (lostRot \/ (Rotates(r) /\ (r.status = "lost" \/ r.at = None)))
       /\ IF r.status = "rejected"
          THEN /\ proc' = [proc EXCEPT ![p] = [Leave(p, "RefreshRejected", l) EXCEPT !.resp = Classify(r)]]
               /\ lock' = Release(l)
               /\ tmp' = tmp
          ELSE IF r.status = "lost"
          THEN /\ proc' = [proc EXCEPT ![p] = [Leave(p, "NetworkError", l) EXCEPT !.resp = Classify(r)]]
               /\ lock' = Release(l)
               /\ tmp' = tmp
          ELSE IF Incomplete(ns)
          THEN /\ proc' = [proc EXCEPT ![p] = [Leave(p, "IncompleteRefreshResponse", l) EXCEPT !.resp = Classify(r)]]
               /\ lock' = Release(l)
               /\ tmp' = tmp
          ELSE /\ proc' = [Touched EXCEPT ![p] =
                             [proc[p] EXCEPT !.pc = "save_write", !.data = Merge(proc[p].loaded, ns),
                                       !.tok = <<ns.at, ns.uid>>, !.fd = "tmp",
                                       !.resp = Classify(r), !.rsp = r, !.tRef = now]]
               /\ lock' = lock
               /\ tmp' = EmptyFile
  /\ UNCHANGED <<now, cache, env, calls, crashes, clean, prevRet>>
  /\ UNCHANGED jobVars
  /\ UNCHANGED toolVars

Refresh(p) == RefreshWith(p, lock)

\* ------------------------------------------------------------------ crash
\* The process dies.  Its descriptors are closed, the marker it created
\* stays.  A crash inside write_text may leave part of the record behind.
\* resp keeps the answer a process had received and not yet saved.
Crash(p) ==
  /\ Active(p)
  /\ crashes < MaxCrashes
  /\ crashes' = crashes + 1
  /\ clean' = FALSE
  /\ \E partial \in IF proc[p].pc \in {"seed_write", "save_write"} THEN BOOLEAN ELSE {FALSE} :
       /\ tmp' = IF partial /\ proc[p].fd = "tmp" THEN Garbled ELSE tmp
       /\ cache' = IF partial /\ proc[p].fd = "cache" THEN Garbled ELSE cache
       /\ prevRet' = IF partial /\ proc[p].fd = "cache" THEN NoTok ELSE prevRet
       /\ proc' = [(IF partial /\ proc[p].fd = "cache" THEN Others(p, FALSE)
                    ELSE IF partial /\ proc[p].fd = "tmp" THEN Touched ELSE proc)
                     EXCEPT ![p] = [Fresh EXCEPT !.pc = "crashed",
                                      !.resp = IF proc[p].pc \in {"save_write", "save_replace"}
                                               THEN proc[p].resp ELSE "none"]]
  /\ UNCHANGED <<now, lock, live, issued, env, calls, lostRot>>
  /\ UNCHANGED jobVars
  /\ UNCHANGED toolVars

\* Time passes between invocations, while a refresh request is out, and while
\* a process polls for a marker whose owner is dead; the file system steps
\* take no time (the clock moves in steps of 90 s).
TimePasses ==
  \/ \A p \in Procs : ~Active(p)
  \/ \E p \in Procs :
       \/ proc[p].pc = "sent"
       \/ (proc[p].pc = "acquire" /\ ~CanCreate(lock) /\ proc[lock].pc = "crashed")

Tick ==
  /\ TimePasses
  /\ \E d \in TickSteps :
       /\ now + d <= 90 * MaxTicks
       /\ now' = now + d
  /\ proc' = [p \in Procs |-> [proc[p] EXCEPT !.prev = NoTok]]
  /\ prevRet' = NoTok
  /\ UNCHANGED <<cache, tmp, lock, live, issued, env, calls, crashes, clean, lostRot>>
  /\ UNCHANGED jobVars
  /\ UNCHANGED toolVars

Next ==
  \/ \E p \in Procs, k \in Kinds : Start(p, k)
  \/ \E p \in Procs : SeedOpen(p)
  \/ \E p \in Procs : SaveWrite(p)
  \/ \E p \in Procs : SaveReplace(p)
  \/ \E p \in Procs : Acquire(p)
  \/ \E p \in Procs : AcquireTimeout(p)
  \/ \E p \in Procs : Refresh(p)
  \/ \E p \in Procs : Crash(p)
  \/ Tick

Spec == Init /\ [][Next]_vars

\* --------------------------------------------- files found in a bad state
\* a cache file holding one record with a usable access token (good until
\* 300) and no refresh_token key
NoRefreshRecord == [st |-> "ok", rt |-> None, at |-> 1, uid |-> 1, exp |-> 300, seeded |-> FALSE]

\* the cache file as a run may find it: not parseable, or without a
\* refresh_token
EdgeCaches == {Garbled, NoRefreshRecord}

InitEdge ==
  /\ now = 0
  /\ cache \in EdgeCaches
  /\ tmp = NoFile
  /\ lock = Free
  /\ live = 1
  /\ issued = 1
  /\ env \in EnvTokens
  /\ proc = [p \in Procs |-> Fresh]
  /\ calls = 0
  /\ crashes = 0
  /\ clean = FALSE
  /\ lostRot = FALSE
  /\ prevRet = NoTok
  /\ JobsAtRest
  /\ ToolsAtRest

SpecEdge == InitEdge /\ [][Next]_vars

\* ------------------------------------------- the marker removed from outside
InitUnmarked ==
  /\ now = 0
  /\ cache = OldRecord
  /\ tmp = NoFile
  /\ lock = Free
  /\ live = 1
  /\ issued = 1
  /\ env = 1
  /\ proc = [p \in Procs |-> Fresh]
  /\ calls = 0
  /\ crashes = 0
  /\ clean = FALSE
  /\ lostRot = FALSE
  /\ prevRet = NoTok
  /\ JobsAtRest
  /\ ToolsAtRest

\* the marker file of p is deleted from outside (the remedy for a marker
\* left behind, applied to a live one) just before the invocation of p
\* ends: the release of p meets no marker
RefreshUnmarked(p) == lock = p /\ proc[p].pc = "sent" /\ RefreshWith(p, Free)

SaveUnmarked(p) == lock = p /\ proc[p].pc = "save_replace" /\ SaveReplaceWith(p, Free)

NextUnmarked ==
  \/ Next
  \/ \E p \in Procs : RefreshUnmarked(p)
  \/ \E p \in Procs : SaveUnmarked(p)

SpecUnmarked == InitUnmarked /\ [][NextUnmarked]_vars

\* ------------------------------------ the marker of a live holder removed
\* data/.fitbit_token.lock is deleted from outside while its creator p is
\* still inside the with block (the remedy for a marker left by a dead
\* process, applied to a live one); another process can then create it
MarkerRemoved(p) ==
  /\ lock = p /\ HoldsLock(p)
  /\ lock' = Free
  /\ UNCHANGED <<now, cache, tmp, live, issued, env, proc, calls, crashes, clean, lostRot, prevRet>>
  /\ UNCHANGED jobVars
  /\ UNCHANGED toolVars

NextForeign ==
  \/ Next
  \/ \E p \in Procs : MarkerRemoved(p)

SpecForeign == InitUnmarked /\ [][NextForeign]_vars

\* ----------------------------------------------------------- termination
\* FileLock.acquire's loop, one turn on which the timeout has not elapsed
StillPolling(p) ==
  proc[p].pc = "acquire" /\ ~CanCreate(lock) /\ now - proc[p].tAcq <= LockTimeoutS

\* Time passes beyond the last instant the clock of the model counts: only
\* the time the polling processes have waited is still recorded.
TickOver ==
  /\ TimePasses
  /\ \A d \in TickSteps : now + d > 90 * MaxTicks
  /\ \E p \in Procs : StillPolling(p)
  /\ \E d \in TickSteps :
       proc' = [p \in Procs |->
                  [proc[p] EXCEPT !.prev = NoTok,
                                  !.tAcq = IF StillPolling(p) THEN @ - d ELSE @]]
  /\ prevRet' = NoTok
  /\ UNCHANGED <<now, cache, tmp, lock, live, issued, env, calls, crashes, clean, lostRot>>
  /\ UNCHANGED jobVars
  /\ UNCHANGED toolVars

MutStep(p) ==
  \/ SeedOpen(p) \/ SaveWrite(p) \/ SaveReplace(p) \/ Acquire(p) \/ Refresh(p)

\* the steps of the invocation of process p
Step(p) ==
  \/ SeedOpen(p) \/ SaveWrite(p) \/ SaveReplace(p)
  \/ Acquire(p) \/ AcquireTimeout(p) \/ Refresh(p)

\* a first run on a machine that has FITBIT_REFRESH_TOKEN and no cache file
InitLive ==
  /\ now = 0
  /\ cache = NoFile
  /\ tmp = NoFile
  /\ lock = Free
  /\ live = 1
  /\ issued = 1
  /\ env = 1
  /\ proc = [p \in Procs |-> Fresh]
  /\ calls = 0
  /\ crashes = 0
  /\ clean = FALSE
  /\ lostRot = FALSE
  /\ prevRet = NoTok
  /\ JobsAtRest
  /\ ToolsAtRest

\* fitbit_auth.get_valid_access_token is called
StartAuth(p) == Start(p, "auth")

NextLive ==
  \/ \E p \in Procs : StartAuth(p)
  \/ \E p \in Procs : Step(p)
  \/ \E p \in Procs : Crash(p)
  \/ Tick
  \/ TickOver

\* A process that is not killed keeps running: its file operations return,
\* its poll loop keeps turning, its refresh request returns or times out
\* (requests.post(..., timeout=30)); and time passes.
SpecLive ==
  /\ InitLive /\ [][NextLive]_vars
  /\ \A p \in Procs : WF_vars(Step(p))
  /\ WF_vars(Tick) /\ WF_vars(TickOver)

\* ===================================================================
\* The pull jobs: main() of pull_fitbit_steps, pull_fitbit_heart (the same
\* code with another column), pull_fitbit_sleep and pull_withings_weight.  A job gets a token, fetches, extracts the rows,
\* and upserts them into the Parquet file of its source.  Rows are pairs
\* <<key, value>>: key the date (the timestamp for weight), value the other
\* columns; a stored row carries its ingested_at besides.
\* ===================================================================
MaxRuns == 2

MeasTypeWeight == 1
MeasTypeOther == 6

\* ------------------------------------------------- the providers' answers
\* one entry of "activities-steps" / "activities-heart"; kind: the value
\* (the resting heart rate) is an integer, is missing, or does not parse
Item(d, v, k) == [dateTime |-> d, value |-> v, kind |-> k]

\* the answers of the steps / heart endpoint
DailyAnswers ==
  {<<>>,
   <<Item(1, 1, "int")>>,
   <<Item(1, 2, "int"), Item(2, 1, "int")>>,
   <<Item(2, 1, "int"), Item(2, 2, "int")>>,
   <<Item(None, 1, "int"), Item(1, 0, "null"), Item(2, 0, "bad")>>}

RECURSIVE ParseDaily(_)
\* fetch_steps_daily, fetch_heart_daily: the entries with a date and an
\* integer value, in order
ParseDaily(series) ==
  IF series = <<>> THEN <<>>
  ELSE LET item == Head(series)
           rest == ParseDaily(Tail(series))
       IN IF item.dateTime = None \/ item.kind # "int" THEN rest
          ELSE <<<<item.dateTime, item.value>>>> \o rest

\* one measure of a Withings measure group (value 0: no value) and one group
\* (date 0: no date)
Measure(ty, v, u) == [type |-> ty, value |-> v, unit |-> u]
Group(d, ms) == [date |-> d, measures |-> ms]

\* the answers of the Withings measure endpoint: nothing; one weight; two
\* groups of different times; two groups of the same second; one group with
\* two weight measures; a weight with a unit beside another measure; a group
\* without date and a measure without value
WeightAnswers ==
  {<<>>,
   <<Group(1, <<Measure(MeasTypeWeight, 1, 0)>>)>>,
   <<Group(1, <<Measure(MeasTypeWeight, 2, 0)>>), Group(2, <<Measure(MeasTypeWeight, 1, 0)>>)>>,
   <<Group(2, <<Measure(MeasTypeWeight, 1, 0)>>), Group(2, <<Measure(MeasTypeWeight, 2, 0)>>)>>,
   <<Group(1, <<Measure(MeasTypeWeight, 1, 0), Measure(MeasTypeWeight, 2, 0)>>)>>,
   <<Group(2, <<Measure(MeasTypeOther, 2, 0), Measure(MeasTypeWeight, 1, 1)>>)>>,
   <<Group(None, <<Measure(MeasTypeWeight, 1, 0)>>), Group(1, <<Measure(MeasTypeWeight, None, 0)>>)>>}

RECURSIVE Pow10(_)
Pow10(u) == IF u = 0 THEN 1 ELSE 10 * Pow10(u - 1)

RECURSIVE WeightsOf(_, _)
\* the inner loop of extract_weight_rows: the weight measures of one group
\* that have a value, as rows at the group's time; weight = value * 10^unit
WeightsOf(d, ms) ==
  IF ms = <<>> THEN <<>>
  ELSE LET m == Head(ms)
           rest == WeightsOf(d, Tail(ms))
       IN IF m.type # MeasTypeWeight \/ m.value = None THEN rest
          ELSE <<<<d, m.value * Pow10(m.unit)>>>> \o rest

RECURSIVE ExtractWeightRows(_)
\* extract_weight_rows: groups without date are skipped
ExtractWeightRows(groups) ==
  IF groups = <<>> THEN <<>>
  ELSE LET g == Head(groups)
           rest == ExtractWeightRows(Tail(groups))
       IN IF g.date = None THEN rest ELSE WeightsOf(g.date, g.measures) \o rest

\* the answers of the Withings token endpoint to refresh token t: an error
\* status; a body with both tokens; a body without access_token; no answer
\* although the token was rotated.  Withings rotates on every refresh.
WithingsBodies(t, lv, n) ==
  IF t # lv THEN {[status |-> "error", at |-> None, rt |-> None]}
  ELSE {[status |-> "error", at |-> None, rt |-> None],
        [status |-> "ok", at |-> n, rt |-> n],
        [status |-> "ok", at |-> None, rt |-> n],
        [status |-> "lost", at |-> None, rt |-> n]}

\* ------------------------------------------------------ upsert_to_parquet
\* the rows of a list as a bag
SeqBag(rows) ==
  [r \in {rows[i] : i \in DOMAIN rows} |-> Cardinality({i \in DOMAIN rows : rows[i] = r})]

\* the incoming side of a joined row when nothing matched
Null == <<>>

MutLeftJoin(existing, rows) ==
  [pr \in {<<e, Null>> : e \in BagToSet(existing)} |-> existing[pr[1]]]

\* existing e LEFT JOIN incoming i ON e.key = i.key, as a bag of pairs
LeftJoin(existing, rows) ==
  LET inc == SeqBag(rows)
      matched == {pr \in BagToSet(existing) \X BagToSet(inc) : pr[1].key = pr[2][1]}
      lonely == {<<e, Null>> : e \in {x \in BagToSet(existing) :
                                        \A i \in BagToSet(inc) : x.key # i[1]}}
  IN [pr \in matched \cup lonely |->
        IF pr[2] = Null THEN existing[pr[1]] ELSE existing[pr[1]] * inc[pr[2]]]

\* SELECT e.* ... WHERE i.key IS NULL
AntiJoin(existing, rows) ==
  LET lj == LeftJoin(existing, rows)
  IN [e \in {pr[1] : pr \in {x \in DOMAIN lj : x[2] = Null}} |-> lj[<<e, Null>>]]

\* SELECT i.*, ? AS ingested_at FROM incoming i
Stamped(rows, t) ==
  LET inc == SeqBag(rows)
  IN [r \in {[key |-> i[1], val |-> i[2], ing |-> t] : i \in BagToSet(inc)} |->
        inc[<<r.key, r.val>>]]

MutMerged(existing, rows, t) == existing (+) Stamped(rows, t)

\* the merged table: UNION ALL of the two
Merged(existing, rows, t) == AntiJoin(existing, rows) (+) Stamped(rows, t)

\* ------------------------------------------------------------------ jobs
Running(j) == job[j].pc \notin {"idle", "exit"}

\* the __main__ guard: the exception is printed and the process exits 1
Fail(j, step) == [job[j] EXCEPT !.pc = "exit", !.status = "1", !.err = step]

\* the process starts: load_dotenv puts .env into its environment
JobStart(j, s) ==
  /\ ~Running(j)
  /\ \A i \in Jobs : i < j => job[i].pc # "idle"
  /\ runs < MaxRuns
  /\ runs' = runs + 1
  /\ job' = [job EXCEPT ![j] = [IdleJob EXCEPT !.pc = "token", !.src = s,
                                               !.rt = IF s = "weight" THEN wenv ELSE None]]
  /\ UNCHANGED <<store, wenv, wlive, wissued, stamp, wsent>>
  /\ UNCHANGED tokenVars
  /\ UNCHANGED toolVars

\* a Fitbit job calls get_valid_access_token, which returns a pair or raises
\* (the invocation itself is the subject of Spec)
FitbitToken(j) ==
  /\ job[j].pc = "token" /\ job[j].src \in Fitbit
  /\ \E ok \in BOOLEAN :
       job' = [job EXCEPT ![j] = IF ok THEN [@ EXCEPT !.pc = "fetch", !.at = 1]
                                 ELSE Fail(j, "token")]
  /\ UNCHANGED <<store, wenv, wlive, wissued, stamp, wsent, runs>>
  /\ UNCHANGED tokenVars
  /\ UNCHANGED toolVars

\* refresh_access_token, up to the answer: require_env, the POST with the
\* refresh token of the environment, raise_for_status and the status check
WithingsRefresh(j) ==
  /\ job[j].pc = "token" /\ job[j].src = "weight"
  /\ IF job[j].rt = None
     THEN /\ job' = [job EXCEPT ![j] = Fail(j, "token")]
          /\ UNCHANGED <<wlive, wissued, wsent>>
     ELSE \E b \in WithingsBodies(job[j].rt, wlive, wissued + 1) :
               /\ wsent' = Append(wsent, [rt |-> job[j].rt, dead |-> job[j].rt # wlive,
                                          lost |-> b.status = "lost"])
               /\ wissued' = IF b.status = "error" THEN wissued ELSE wissued + 1
               /\ wlive' = IF b.status = "error" THEN wlive ELSE wissued + 1
               /\ job' = [job EXCEPT ![j] = IF b.status = "ok"
                                            THEN [@ EXCEPT !.pc = "persist", !.body = b]
                                            ELSE Fail(j, "token")]
  /\ UNCHANGED <<store, wenv, stamp, runs>>
  /\ UNCHANGED tokenVars
  /\ UNCHANGED toolVars

MutWithingsPersist(j) ==
  /\ job[j].pc = "persist"
  /\ LET b == job[j].body
         new == b.rt # None /\ b.rt # job[j].rt
     IN job' = [job EXCEPT ![j] =
                  IF b.at = None THEN [Fail(j, "token") EXCEPT !.rt = IF new THEN b.rt ELSE @]
                  ELSE [@ EXCEPT !.pc = "fetch", !.at = b.at, !.rt = IF new THEN b.rt ELSE @]]
  /\ UNCHANGED <<store, wenv, wlive, wissued, stamp, wsent, runs>>
  /\ UNCHANGED tokenVars
  /\ UNCHANGED toolVars

\* refresh_access_token, the rest: a new refresh token is written to .env
\* (update_env_value); then main() checks the access token
WithingsPersist(j) ==
  /\ job[j].pc = "persist"
  /\ LET b == job[j].body
         new == b.rt # None /\ b.rt # job[j].rt
     IN /\ wenv' = IF new THEN b.rt ELSE wenv
        /\ job' = [job EXCEPT ![j] =
                     IF b.at = None THEN [Fail(j, "token") EXCEPT !.rt = IF new THEN b.rt ELSE @]
                     ELSE [@ EXCEPT !.pc = "fetch", !.at = b.at, !.rt = IF new THEN b.rt ELSE @]]
  /\ UNCHANGED <<store, wlive, wissued, stamp, wsent, runs>>
  /\ UNCHANGED tokenVars
  /\ UNCHANGED toolVars

\* fetch_steps_daily, fetch_heart_daily: one request; a status other than
\* 200 raises
FetchDaily(j) ==
  /\ job[j].pc = "fetch" /\ job[j].src \in Daily
  /\ \/ job' = [job EXCEPT ![j] = [Fail(j, "fetch") EXCEPT !.fetchFailed = TRUE]]
     \/ \E a \in DailyAnswers :
          job' = [job EXCEPT ![j] = [@ EXCEPT !.pc = "load", !.fetched = 1, !.rows = ParseDaily(a)]]
  /\ UNCHANGED <<store, wenv, wlive, wissued, stamp, wsent, runs>>
  /\ UNCHANGED tokenVars
  /\ UNCHANGED toolVars

MutFetchSleepDay(j) ==
  /\ job[j].pc = "fetch" /\ job[j].src = "sleep"
  /\ job' = [job EXCEPT ![j] = [@ EXCEPT !.fetchFailed = TRUE, !.fetched = @ + 1,
                                         !.pc = IF job[j].fetched + 1 = Cardinality(Days)
                                                THEN "load" ELSE "fetch"]]
  /\ UNCHANGED <<store, wenv, wlive, wissued, stamp, wsent, runs>>
  /\ UNCHANGED tokenVars
  /\ UNCHANGED toolVars

\* fetch_sleep_range, one turn of the loop: fetch_sleep_daily for the next
\* day raises on a status other than 200, returns None (no sleep log) or the
\* day's row
FetchSleepDay(j) ==
  /\ job[j].pc = "fetch" /\ job[j].src = "sleep"
  /\ LET d == job[j].fetched + 1
         next == IF d = Cardinality(Days) THEN "load" ELSE "fetch"
     IN \/ job' = [job EXCEPT ![j] = [Fail(j, "fetch") EXCEPT !.fetchFailed = TRUE]]
        \/ job' = [job EXCEPT ![j] = [@ EXCEPT !.pc = next, !.fetched = d]]
        \/ \E v \in Vals :
             job' = [job EXCEPT ![j] = [@ EXCEPT !.pc = next, !.fetched = d,
                                                  !.rows = Append(@, <<d, v>>)]]
  /\ UNCHANGED <<store, wenv, wlive, wissued, stamp, wsent, runs>>
  /\ UNCHANGED tokenVars
  /\ UNCHANGED toolVars

\* fetch_weight_measure_groups and extract_weight_rows
FetchWeight(j) ==
  /\ job[j].pc = "fetch" /\ job[j].src = "weight"
  /\ \/ job' = [job EXCEPT ![j] = [Fail(j, "fetch") EXCEPT !.fetchFailed = TRUE]]
     \/ \E a \in WeightAnswers :
          job' = [job EXCEPT ![j] = [@ EXCEPT !.pc = "load", !.fetched = 1,
                                               !.rows = ExtractWeightRows(a)]]
  /\ UNCHANGED <<store, wenv, wlive, wissued, stamp, wsent, runs>>
  /\ UNCHANGED tokenVars
  /\ UNCHANGED toolVars

\* upsert_to_parquet, first part: the incoming rows are staged (executemany
\* of an empty list raises in some DuckDB versions), the Parquet file is
\* read, ingested_at is taken
UpsertLoad(j) ==
  /\ job[j].pc = "load"
  /\ \/ /\ job' = [job EXCEPT ![j] = [@ EXCEPT !.pc = "copy", !.existing = store[job[j].src],
                                               !.t = stamp + 1]]
        /\ stamp' = stamp + 1
     \/ /\ job[j].rows = <<>>
        /\ job' = [job EXCEPT ![j] = Fail(j, "upsert")]
        /\ stamp' = stamp
  /\ UNCHANGED <<store, wenv, wlive, wissued, wsent, runs>>
  /\ UNCHANGED tokenVars
  /\ UNCHANGED toolVars

\* upsert_to_parquet, second part: the merge, COPY ... TO the Parquet file
\* (overwrite), the count; main() prints and the process exits 0
UpsertCopy(j) ==
  /\ job[j].pc = "copy"
  /\ LET merged == Merged(job[j].existing, job[j].rows, job[j].t)
     IN /\ store' = [store EXCEPT ![job[j].src] = merged]
        /\ job' = [job EXCEPT ![j] = [@ EXCEPT !.pc = "exit", !.status = "0", !.wrote = TRUE,
                                               !.ret = <<Len(job[j].rows), BagCardinality(merged)>>]]
  /\ UNCHANGED <<wenv, wlive, wissued, stamp, wsent, runs>>
  /\ UNCHANGED tokenVars
  /\ UNCHANGED toolVars

\* the token manager at rest
TokensAtRest ==
  /\ now = 0
  /\ cache = NoFile
  /\ tmp = NoFile
  /\ lock = Free
  /\ live = 1
  /\ issued = 1
  /\ env = None
  /\ proc = [p \in Procs |-> Fresh]
  /\ calls = 0
  /\ crashes = 0
  /\ clean = FALSE
  /\ lostRot = FALSE
  /\ prevRet = NoTok

\* .env holds the refresh token of the bootstrap, or none
InitJobs ==
  /\ TokensAtRest
  /\ job = [j \in Jobs |-> IdleJob]
  /\ store = [s \in Sources |-> EmptyBag]
  /\ wenv \in {None, 1}
  /\ wlive = 1
  /\ wissued = 1
  /\ stamp = 0
  /\ wsent = <<>>
  /\ runs = 0
  /\ ToolsAtRest

NextJobs ==
  \/ \E j \in Jobs, s \in Sources : JobStart(j, s)
  \/ \E j \in Jobs : FitbitToken(j)
  \/ \E j \in Jobs : WithingsRefresh(j)
  \/ \E j \in Jobs : WithingsPersist(j)
  \/ \E j \in Jobs : FetchDaily(j)
  \/ \E j \in Jobs : FetchSleepDay(j)
  \/ \E j \in Jobs : FetchWeight(j)
  \/ \E j \in Jobs : UpsertLoad(j)
  \/ \E j \in Jobs : UpsertCopy(j)

SpecJobs == InitJobs /\ [][NextJobs]_vars

\* ===================================================================
\* update_env_value (pull_withings_weight, bootstrap_fitbit, weight_pull):
\* the .env file is a text, a sequence of characters.
\* ===================================================================
MaxText == 4
MaxEdits == 2

NL == "\n"

\* the characters of a text: two letters, the separator and the line break
Chars == {"K", "J", "=", NL}

\* the texts of at most n characters
TextsUpTo(n) == UNION {[1 .. k -> Chars] : k \in 0 .. n}

\* the keys and the values update_env_value is called with
EnvKeys == {<<"K">>, <<"K", "J">>}
EnvValues == {<<"J">>, <<"J", "J">>}

RECURSIVE SplitFrom(_, _, _)
\* str.splitlines() from position i on, cur being the line begun: a line
\* break ends a line, and the text after the last break is a line unless it
\* is empty
SplitFrom(text, i, cur) ==
  IF i > Len(text) THEN (IF cur = <<>> THEN <<>> ELSE <<cur>>)
  ELSE IF text[i] = NL THEN <<cur>> \o SplitFrom(text, i + 1, <<>>)
  ELSE SplitFrom(text, i + 1, Append(cur, text[i]))

SplitLines(text) == SplitFrom(text, 1, <<>>)

RECURSIVE JoinLines(_)
\* "\n".join(out)
JoinLines(out) ==
  IF out = <<>> THEN <<>>
  ELSE IF Len(out) = 1 THEN out[1]
  ELSE out[1] \o <<NL>> \o JoinLines(Tail(out))

MutStartsWith(line, prefix) == line # <<>> /\ line[1] = prefix[1]

\* line.startswith(prefix)
StartsWith(line, prefix) ==
  /\ Len(line) >= Len(prefix)
  /\ \A i \in DOMAIN prefix : line[i] = prefix[i]

\* f"{key}={value}"
KeyLine(key, value) == key \o <<"=">> \o value

\* the lines read: none when the file does not exist
ReadLines(file) == IF file.st = "absent" THEN <<>> ELSE SplitLines(file.text)

\* the loop of update_env_value over the lines
Replaced(lines, key, value) ==
  [i \in DOMAIN lines |->
     IF StartsWith(lines[i], key \o <<"=">>) THEN KeyLine(key, value) ELSE lines[i]]

Found(lines, key) ==
  \E i \in DOMAIN lines : StartsWith(lines[i], key \o <<"=">>)

\* the file update_env_value(key, value) writes over the file it found
UpdateEnv(file, key, value) ==
  LET lines == ReadLines(file)
      out == IF Found(lines, key) THEN Replaced(lines, key, value)
             ELSE Append(Replaced(lines, key, value), KeyLine(key, value))
  IN [st |-> "ok", text |-> JoinLines(out) \o <<NL>>]

\* one call of update_env_value; edits records the call
UpdateEnvValue(key, value) ==
  /\ Len(edits) < MaxEdits
  /\ dotenv' = UpdateEnv(dotenv, key, value)
  /\ edits' = Append(edits, [key |-> key, value |-> value,
                             before |-> dotenv, after |-> dotenv'])
  /\ UNCHANGED <<wdb, ups, engine, boot>>
  /\ UNCHANGED tokenVars
  /\ UNCHANGED jobVars

\* no .env file, or any text
InitEnv ==
  /\ TokensAtRest
  /\ JobsAtRest
  /\ dotenv \in {NoEnvFile} \cup {[st |-> "ok", text |-> t] : t \in TextsUpTo(MaxText)}
  /\ edits = <<>>
  /\ wdb = {}
  /\ ups = <<>>
  /\ engine = "error"
  /\ boot = IdleBoot

NextEnv == \E key \in EnvKeys, value \in EnvValues : UpdateEnvValue(key, value)

SpecEnv == InitEnv /\ [][NextEnv]_vars

\* ===================================================================
\* The upserts applied one after another: upsert_to_parquet on the Parquet
\* file of the weights, weight_pull.upsert_weights on the table
\* raw_withings_weight (PRIMARY KEY measured_at) of the DuckDB database.
\* ===================================================================
MaxUpserts == 3

\* how the database treats several source rows of a MERGE that match one
\* target row: the statement fails, or the row ends with the values of the
\* first or of the last of them
Engines == {"error", "first", "last"}

\* the keys of a list of rows, and the rows of one key in order
SourceKeys(rows) == {rows[i][1] : i \in DOMAIN rows}

SourceRows(rows, k) ==
  LET OfKey(r) == r[1] = k
  IN SelectSeq(rows, OfKey)

\* MERGE INTO raw_withings_weight t USING (...) s ON t.measured_at =
\* s.measured_at WHEN MATCHED THEN UPDATE ... WHEN NOT MATCHED THEN INSERT:
\* two source rows of a key the table does not hold are two inserts of one
\* primary key, and the statement fails with the table as it was
MergeInto(table, rows, t, eng) ==
  LET held == {r.key : r \in table}
      twice == {k \in SourceKeys(rows) : Len(SourceRows(rows, k)) > 1}
      pick(k) == LET rs == SourceRows(rows, k)
                 IN IF eng = "first" THEN rs[1] ELSE rs[Len(rs)]
  IN IF \E k \in twice : k \notin held \/ eng = "error"
     THEN [ok |-> FALSE, table |-> table]
     ELSE [ok |-> TRUE,
           table |-> {r \in table : r.key \notin SourceKeys(rows)}
                       \cup {[key |-> k, val |-> pick(k)[2], ing |-> t] : k \in SourceKeys(rows)}]

\* weight_pull.upsert_weights(con, measure_groups): the rows are extracted,
\* nothing is done when there are none, otherwise they are staged and merged
UpsertWeights(groups) ==
  /\ Len(ups) < MaxUpserts
  /\ LET rows == ExtractWeightRows(groups)
         res == IF rows = <<>> THEN [ok |-> TRUE, table |-> wdb]
                ELSE MergeInto(wdb, rows, stamp + 1, engine)
     IN /\ wdb' = res.table
        /\ ups' = Append(ups, [fn |-> "upsert_weights", arg |-> groups, ok |-> res.ok,
                               before |-> wdb, after |-> res.table])
  /\ stamp' = stamp + 1
  /\ UNCHANGED <<job, store, wenv, wlive, wissued, wsent, runs>>
  /\ UNCHANGED <<dotenv, edits, engine, boot>>
  /\ UNCHANGED tokenVars

\* upsert_to_parquet(rows) of pull_withings_weight on the rows extracted from
\* an answer (staging an empty list raises in some DuckDB versions)
UpsertToParquet(groups) ==
  /\ Len(ups) < MaxUpserts
  /\ LET rows == ExtractWeightRows(groups)
     IN \/ /\ store' = [store EXCEPT !["weight"] = Merged(store["weight"], rows, stamp + 1)]
           /\ ups' = Append(ups, [fn |-> "upsert_to_parquet", arg |-> groups, ok |-> TRUE,
                                  before |-> store["weight"], after |-> store'["weight"]])
        \/ /\ rows = <<>>
           /\ store' = store
           /\ ups' = Append(ups, [fn |-> "upsert_to_parquet", arg |-> groups, ok |-> FALSE,
                                  before |-> store["weight"], after |-> store["weight"]])
  /\ stamp' = stamp + 1
  /\ UNCHANGED <<job, wenv, wlive, wissued, wsent, runs>>
  /\ UNCHANGED <<dotenv, edits, wdb, engine, boot>>
  /\ UNCHANGED tokenVars

\* an empty Parquet file and an empty table
InitUpsert ==
  /\ TokensAtRest
  /\ JobsAtRest
  /\ dotenv = NoEnvFile
  /\ edits = <<>>
  /\ wdb = {}
  /\ ups = <<>>
  /\ engine \in Engines
  /\ boot = IdleBoot

NextUpsert ==
  \/ \E groups \in WeightAnswers : UpsertWeights(groups)
  \/ \E groups \in WeightAnswers : UpsertToParquet(groups)

SpecUpsert == InitUpsert /\ [][NextUpsert]_vars

\* ===================================================================
\* The bootstrap scripts: bootstrap_fitbit.py and ops/withings_bootstrap.py.
\* A script prints the authorization URL, listens for the callback, exchanges
\* the code and writes the refresh token to .env.  A query parameter that is
\* missing or blank is "" (parse_qs drops blank values).
\* ===================================================================
MaxRequests == 2

\* STATE of withings_bootstrap.py (the name is a reserved word here)
WithingsState == "lifeops"

\* the values of a state parameter: the value secrets.token_urlsafe gives a
\* Fitbit run is one of them
StateValues == {WithingsState, "zQ"}

\* the requests the listener may get
Requests ==
  [path : {"/callback", "/favicon.ico"}, code : {"", "c1"},
   state : {""} \cup StateValues, error : {"", "access_denied"}]

\* the answers of a token endpoint to the exchange of a code: an error, or a
\* body with or without refresh_token (and user_id)
Exchanges ==
  {[status |-> "error", rt |-> FALSE, uid |-> FALSE],
   [status |-> "ok", rt |-> FALSE, uid |-> TRUE],
   [status |-> "ok", rt |-> TRUE, uid |-> FALSE],
   [status |-> "ok", rt |-> TRUE, uid |-> TRUE]}

\* load_dotenv and require_env of main(), then the generated state and the
\* listener; a missing setting raises
FitbitBootStart(st) ==
  /\ boot.pc = "idle"
  /\ \/ boot' = [IdleBoot EXCEPT !.pc = "listen", !.who = "fitbit", !.state = st]
     \/ boot' = [IdleBoot EXCEPT !.pc = "done", !.who = "fitbit", !.result = "MissingConfig"]
  /\ UNCHANGED <<dotenv, edits, wdb, ups, engine>>
  /\ UNCHANGED tokenVars
  /\ UNCHANGED jobVars

\* CallbackHandler.do_GET: what the handler stores of a request
FitbitStored(b, req) ==
  IF req.path # "/callback" THEN b
  ELSE IF req.error # "" THEN [b EXCEPT !.error = req.error]
  ELSE IF req.code # ""
    THEN [b EXCEPT !.returned = req.state, !.code = req.code, !.cbstate = req.state]
  ELSE [b EXCEPT !.returned = req.state]

\* server.handle_request() in the loop of main(): one request is handled, and
\* the loop ends once a code or an error is stored
FitbitCallback(req) ==
  /\ boot.pc = "listen" /\ boot.who = "fitbit"
  /\ boot.handled < MaxRequests
  /\ LET b == FitbitStored(boot, req)
     IN boot' = [b EXCEPT !.handled = @ + 1,
                          !.pc = IF b.code = "" /\ b.error = "" THEN "listen" ELSE "check"]
  /\ UNCHANGED <<dotenv, edits, wdb, ups, engine>>
  /\ UNCHANGED tokenVars
  /\ UNCHANGED jobVars

MutFitbitOutcome(b, ans) ==
  IF b.error # "" THEN "AuthError"
  ELSE IF b.code = "" THEN "NoCode"
  ELSE IF ans.status # "ok" THEN "ExchangeFailed"
  ELSE IF ~ans.rt THEN "NoRefreshToken"
  ELSE "saved"

\* main() after the loop: the checks in their order, the exchange, the check
\* of the response
FitbitOutcome(b, ans) ==
  IF b.error # "" THEN "AuthError"
  ELSE IF b.returned # b.state THEN "StateMismatch"
  ELSE IF b.code = "" THEN "NoCode"
  ELSE IF ans.status # "ok" THEN "ExchangeFailed"
  ELSE IF ~ans.rt THEN "NoRefreshToken"
  ELSE "saved"

\* the rest of main(): on success the provider has issued a refresh token for
\* the authorization, which update_env_value writes to .env, and the user id
\* with it when the response has one
FitbitBootFinish(ans) ==
  /\ boot.pc = "check" /\ boot.who = "fitbit"
  /\ LET res == FitbitOutcome(boot, ans)
     IN /\ boot' = [boot EXCEPT !.pc = "done", !.result = res,
                                !.uid = IF res = "saved" /\ ans.uid THEN "u1" ELSE @]
        /\ IF res = "saved"
           THEN /\ issued' = issued + 1
                /\ live' = issued + 1
                /\ env' = issued + 1
           ELSE UNCHANGED <<issued, live, env>>
  /\ UNCHANGED <<now, cache, tmp, lock, proc, calls, crashes, clean, lostRot, prevRet>>
  /\ UNCHANGED <<dotenv, edits, wdb, ups, engine>>
  /\ UNCHANGED jobVars

\* the import of withings_bootstrap.py (a missing client id or secret raises)
\* and main() up to t.join()
WithingsBootStart ==
  /\ boot.pc = "idle"
  /\ \/ boot' = [IdleBoot EXCEPT !.pc = "listen", !.who = "withings", !.state = WithingsState]
     \/ boot' = [IdleBoot EXCEPT !.pc = "done", !.who = "withings", !.result = "MissingConfig"]
  /\ UNCHANGED <<dotenv, edits, wdb, ups, engine>>
  /\ UNCHANGED tokenVars
  /\ UNCHANGED jobVars

\* Handler.do_GET: whatever the path, code and error are stored; a state that
\* is given and differs from WithingsState makes an error
WithingsStored(b, req) ==
  LET error == IF req.state # "" /\ req.state # WithingsState
               THEN (IF req.error # "" THEN req.error ELSE "state_mismatch")
               ELSE req.error
  IN [b EXCEPT !.code = req.code, !.error = error, !.cbstate = req.state]

\* serve_forever handles a request; the handler starts a thread that shuts the
\* server down, and the server may take another request before the shutdown
\* is seen
WithingsCallback(req) ==
  /\ boot.pc = "listen" /\ boot.who = "withings"
  /\ boot.handled < MaxRequests
  /\ \E next \in {"check", "listen"} :
       boot' = [WithingsStored(boot, req) EXCEPT !.handled = @ + 1, !.pc = next]
  /\ UNCHANGED <<dotenv, edits, wdb, ups, engine>>
  /\ UNCHANGED tokenVars
  /\ UNCHANGED jobVars

\* main() after t.join()
WithingsOutcome(b, ans) ==
  IF b.error # "" THEN "CallbackError"
  ELSE IF b.code = "" THEN "NoCode"
  ELSE IF ans.status # "ok" THEN "ExchangeFailed"
  ELSE IF ~ans.rt THEN "NoRefreshToken"
  ELSE "saved"

\* the rest of main(): the exchange, and update_env_refresh_token with the
\* refresh token Withings issued
WithingsBootFinish(ans) ==
  /\ boot.pc = "check" /\ boot.who = "withings"
  /\ LET res == WithingsOutcome(boot, ans)
     IN /\ boot' = [boot EXCEPT !.pc = "done", !.result = res]
        /\ IF res = "saved"
           THEN /\ wissued' = wissued + 1
                /\ wlive' = wissued + 1
                /\ wenv' = wissued + 1
           ELSE UNCHANGED <<wissued, wlive, wenv>>
  /\ UNCHANGED <<job, store, stamp, wsent, runs>>
  /\ UNCHANGED <<dotenv, edits, wdb, ups, engine>>
  /\ UNCHANGED tokenVars

\* .env holds the refresh tokens of an earlier bootstrap, or none
InitBoot ==
  /\ now = 0
  /\ cache = NoFile
  /\ tmp = NoFile
  /\ lock = Free
  /\ live = 1
  /\ issued = 1
  /\ env \in {None, 1}
  /\ proc = [p \in Procs |-> Fresh]
  /\ calls = 0
  /\ crashes = 0
  /\ clean = FALSE
  /\ lostRot = FALSE
  /\ prevRet = NoTok
  /\ job = [j \in Jobs |-> IdleJob]
  /\ store = [s \in Sources |-> EmptyBag]
  /\ wenv \in {None, 1}
  /\ wlive = 1
  /\ wissued = 1
  /\ stamp = 0
  /\ wsent = <<>>
  /\ runs = 0
  /\ ToolsAtRest

NextBoot ==
  \/ \E st \in StateValues : FitbitBootStart(st)
  \/ \E req \in Requests : FitbitCallback(req)
  \/ \E ans \in Exchanges : FitbitBootFinish(ans)
  \/ WithingsBootStart
  \/ \E req \in Requests : WithingsCallback(req)
  \/ \E ans \in Exchanges : WithingsBootFinish(ans)

SpecBoot == InitBoot /\ [][NextBoot]_vars

\* ===================================================================
\* Properties
\* ===================================================================
InCS == {p \in Procs : HoldsLock(p)}
InFlight == {p \in Procs : proc[p].pc = "sent"}

\* C1: at most one process is between a successful FileLock.acquire and its
\* release at any time, the marker names it, and at most one refresh request
\* is in flight.
C1_MutualExclusion ==
  /\ Cardinality(InCS) <= 1
  /\ Cardinality(InFlight) <= 1
  /\ \A p \in InCS : lock = p

\* a process waits for the lock while another has a refresh request out
C1_Witness ==
  \E p, q \in Procs : proc[p].pc = "sent" /\ lock = p /\ proc[q].pc = "acquire"

LiveTokenKept ==
  /\ \A p \in Procs : proc[p].pc = "sent" => proc[p].req = live
  /\ lock = Free => (cache.st = "ok" /\ cache.rt = live)

\* C2 as stated: from a cache holding the live refresh token, with only
\* fitbit_auth invocations and no crash (clean), every refresh request in
\* flight carries the provider's live refresh token, and whenever the lock is
\* free the cache's refresh_token is the live one.
C2_LiveTokenAsStated == clean => LiveTokenKept

\* C2 amended: the same, as long as every rotation the provider made was
\* answered by a response that arrived with both tokens.
C2_LiveToken == (clean /\ ~lostRot) => LiveTokenKept

\* a rotation has been persisted and the lock is free again
C2_Witness ==
  /\ clean /\ ~lostRot /\ lock = Free
  /\ live > 1 /\ cache.rt = live
  /\ \E p \in Procs : proc[p].pc = "done" /\ proc[p].result = "ok" /\ proc[p].net = 1

\* the step of process p
Steps(p) == proc'[p].pc # proc[p].pc \/ proc'[p].writes # proc[p].writes

\* C3 as stated: whenever a process changes the cache file, it holds the lock.
C3_WritesUnderLock ==
  [][\A p \in Procs : (Steps(p) /\ proc'[p].writes > proc[p].writes) => lock = p]_vars

\* C4 as stated: a seed write of fitbit_auth or pull_fitbit_steps never
\* lands on a cache file that already exists.
C4_SeedNeverReplaces ==
  [][\A p \in Procs :
       (InSeed(p) /\ proc[p].kind \in SeedOnce /\ proc'[p].writes > proc[p].writes)
         => ~Exists(cache)]_vars

\* C5 as stated (the configuration never changes in this model):
\* pull_fitbit_heart's seeding step does not rewrite a cache file that holds
\* a record.
C5_HeartNoReseed ==
  [][\A p \in Procs :
       (proc[p].pc \in {"idle", "done"} /\ proc'[p].kind = "heart" /\ proc'[p].pc # proc[p].pc
          /\ cache.st = "ok")
         => proc'[p].pc # "seed_open"]_vars

\* C6 (P1): a fitbit_auth / pull_fitbit_steps invocation that starts right
\* after a successful one (no time passed, cache not touched since, expiry
\* well beyond the margin) sends no request and returns the same pair.
C6_IdempotentValidRead ==
  [][\A p \in Procs :
       (proc[p].prev # NoTok /\ proc[p].kind \in SeedOnce /\ Active(p) /\ proc'[p].pc = "done")
         => (proc'[p].result = "ok" /\ proc'[p].tok = proc[p].prev /\ proc'[p].net = 0)]_vars

\* two finished invocations returned the same pair, the second without a request
C6_Witness ==
  \E p, q \in Procs :
    /\ p # q
    /\ proc[p].pc = "done" /\ proc[p].result = "ok" /\ proc[p].net = 1
    /\ proc[q].pc = "done" /\ proc[q].result = "ok" /\ proc[q].net = 0
    /\ proc[q].kind \in SeedOnce /\ proc[p].kind \in SeedOnce
    /\ proc[q].tok = proc[p].tok /\ prevRet = proc[q].tok

\* C7: with a record loaded inside the lock, the refresh branch is taken if
\* and only if access_token is absent, or expires_at is absent or does not
\* parse, or now >= expires_at - 120 s.
C7_RefreshIff ==
  [][\A p \in Procs :
       (proc[p].pc = "acquire" /\ proc'[p].pc \in {"sent", "done"}
          /\ proc'[p].result # "LockTimeout" /\ cache.st = "ok")
         => ((proc'[p].pc = "sent" \/ proc'[p].result = "MissingRefreshToken")
               <=> (cache.at = None \/ cache.exp = None \/ cache.exp = BadExp
                      \/ now >= cache.exp - 120))]_vars

\* a refresh request went out for a token that expires in exactly 120 s
C7_Witness ==
  \E p \in Procs :
    proc[p].pc = "sent" /\ proc[p].loaded.at # None /\ proc[p].loaded.exp = now + 120

\* C8 as stated (P6): when the provider rejects the refresh request of a
\* fitbit_auth invocation, the invocation fails with RefreshRejected, the
\* cache file is what it was before the call (no other process having
\* written it meanwhile), and the marker is gone.
C8_RejectedAsStated ==
  [][\A p \in Procs :
       (proc[p].pc = "sent" /\ proc'[p].resp = "rejected" /\ proc[p].kind = "auth" /\ ~proc[p].foreign)
         => (proc'[p].result = "RefreshRejected" /\ cache' = proc[p].start /\ lock' # p)]_vars

\* C8 amended: when the provider rejects the refresh request of a fitbit_auth
\* invocation, the invocation fails with RefreshRejected, writes nothing after
\* the answer and removes the marker; the cache file is what the invocation
\* loaded inside the lock, which is what it was before the call provided the
\* file existed when the call began (no other process having written it
\* meanwhile).
C8_Rejected ==
  [][\A p \in Procs :
       (proc[p].pc = "sent" /\ proc'[p].resp = "rejected" /\ proc[p].kind = "auth")
         => /\ proc'[p].result = "RefreshRejected"
            /\ proc'[p].pc = "done"
            /\ proc'[p].csWrites = 0
            /\ cache' = cache
            /\ lock' # p
            /\ (~proc[p].foreign
                  => (cache' = proc[p].loaded
                        /\ (Exists(proc[p].start) => cache' = proc[p].start)))]_vars

\* a fitbit_auth invocation has failed on a rejected refresh
C8_Witness ==
  \E p \in Procs :
    /\ proc[p].pc = "done" /\ proc[p].kind = "auth" /\ proc[p].result = "RefreshRejected"
    /\ proc[p].resp = "rejected" /\ lock = Free /\ cache.st = "ok"

\* C9: a 200 response without access_token or without refresh_token makes the
\* invocation fail with IncompleteRefreshResponse, and nothing is written:
\* the cache file stays what was loaded.
C9_IncompleteNoWrite ==
  [][\A p \in Procs :
       (proc[p].pc = "sent" /\ proc'[p].resp \in {"ok_neither", "ok_no_access", "ok_no_refresh"})
         => /\ proc'[p].result = "IncompleteRefreshResponse"
            /\ proc'[p].pc = "done"
            /\ proc'[p].csWrites = 0
            /\ cache' = cache
            /\ (~proc[p].foreign => cache' = proc[p].loaded)]_vars

\* an invocation has failed on a response that had a refresh token and no
\* access token
C9_Witness ==
  \E p \in Procs :
    /\ proc[p].pc = "done" /\ proc[p].result = "IncompleteRefreshResponse"
    /\ proc[p].resp = "ok_no_access" /\ proc[p].csWrites = 0

\* C10 as stated: the canonical cache file never becomes a partial record: a
\* file that is absent or holds one complete record stays so.
C10_CacheWhole ==
  [][cache.st \in {"absent", "ok"} => cache'.st \in {"absent", "ok"}]_vars

\* the refresh's save_token_cache of p completes, with the temporary file
\* holding what p wrote to it
SaveCompletes(p) ==
  proc[p].pc = "save_replace" /\ tmp = proc[p].data /\ proc'[p].pc = "done"

\* C11: the record persisted after a refresh is the record loaded inside the
\* lock overridden by the response: access_token and refresh_token are the
\* response's (the refresh_token is a new one), what the response does not
\* carry (the seeding stamp) is kept, and user_id is the response's, or the
\* loaded one when the response has none.
C11_MergedState ==
  [][\A p \in Procs :
       SaveCompletes(p)
         => /\ cache'.st = "ok"
            /\ cache'.at = proc[p].rsp.at
            /\ cache'.rt = proc[p].rsp.rt
            /\ cache'.rt # proc[p].loaded.rt
            /\ cache'.seeded = proc[p].loaded.seeded
            /\ cache'.uid = IF proc[p].rsp.uid # None THEN proc[p].rsp.uid
                            ELSE proc[p].loaded.uid]_vars

\* a refresh was persisted whose response had no user_id: the cache holds the
\* rotated token and the user_id of the old record
C11_Witness ==
  \E p \in Procs :
    /\ proc[p].pc = "done" /\ proc[p].result = "ok" /\ proc[p].lockSaves = 1
    /\ cache.st = "ok" /\ cache.rt = live /\ live > 1 /\ cache.at = live
    /\ cache.uid = OldRecord.uid /\ cache.seeded
    /\ proc[p].tok = <<live, OldRecord.uid>>

\* C12 as stated: the record persisted after a validated refresh has
\* expires_at present and equal to the time of the refresh plus expires_in.
C12_ExpiresAtAsStated ==
  [][\A p \in Procs :
       SaveCompletes(p)
         => (cache'.exp # None /\ cache'.exp = proc[p].tRef + proc[p].rsp.ein)]_vars

\* C12 amended: ... when the response carries an integer expires_in;
\* otherwise expires_at is persisted as absent.
C12_ExpiresAt ==
  [][\A p \in Procs :
       SaveCompletes(p)
         => IF proc[p].rsp.ein # 0
            THEN cache'.exp # None /\ cache'.exp = proc[p].tRef + proc[p].rsp.ein
            ELSE cache'.exp = None]_vars

\* a refresh answered at time 90 with expires_in = 300 has been persisted
C12_Witness ==
  \E p \in Procs :
    /\ proc[p].pc = "done" /\ proc[p].lockSaves = 1 /\ proc[p].resp = "ok_complete"
    /\ cache.st = "ok" /\ cache.rt = live /\ cache.exp = 390 /\ now = 90

\* C13 (P5): an invocation that found no cache file and seeded it, no other
\* process having written the cache since, loads inside the lock the seed
\* record (refresh_token = FITBIT_REFRESH_TOKEN, no access_token, no
\* expires_at), takes the refresh branch and sends one request, carrying the
\* bootstrap token; it sends no other.
C13_SeedThenRefresh ==
  [][\A p \in Procs :
       /\ (proc[p].pc = "acquire" /\ CanCreate(lock) /\ proc'[p].pc # "acquire"
             /\ proc'[p].pc # "crashed"
             /\ proc[p].start.st = "absent" /\ proc[p].seedSaves = 1 /\ ~proc[p].foreign)
            => /\ cache.st = "ok" /\ cache.rt = env /\ env # None
               /\ cache.at = None /\ cache.exp = None
               /\ proc'[p].pc = "sent" /\ proc'[p].req = env /\ proc'[p].net = 1
       /\ (proc[p].pc = "sent" /\ proc[p].seedSaves = 1)
            => (proc'[p].pc = "crashed" \/ proc'[p].net = 1)]_vars

\* the request of an invocation that seeded the cache is out, with the
\* bootstrap token
C13_Witness ==
  \E p \in Procs :
    /\ proc[p].pc = "sent" /\ proc[p].start.st = "absent" /\ proc[p].seedSaves = 1
    /\ proc[p].loaded = SeedRecord(env) /\ proc[p].req = env /\ proc[p].net = 1

\* C14 (E2E): an invocation that found no cache file, seeded it with the
\* bootstrap token b, sent b, and got {access_token T, refresh_token R',
\* expires_in e, user_id U} returns (T, U), having sent one request, and
\* leaves the cache with refresh_token R' and expires_at = refresh time + e
\* (no other process having written the files meanwhile).
C14_EndToEnd ==
  [][\A p \in Procs :
       (SaveCompletes(p) /\ proc[p].start.st = "absent" /\ proc[p].seedSaves = 1
          /\ ~proc[p].foreign /\ proc[p].req = env
          /\ proc[p].rsp.uid # None /\ proc[p].rsp.ein # 0)
         => /\ proc'[p].result = "ok"
            /\ proc'[p].tok = <<proc[p].rsp.at, proc[p].rsp.uid>>
            /\ proc'[p].net = 1
            /\ cache'.rt = proc[p].rsp.rt
            /\ cache'.exp = proc[p].tRef + proc[p].rsp.ein]_vars

\* a fitbit_auth invocation has seeded, refreshed once and returned the
\* provider's pair; the cache holds the rotated token, valid for 300 s
C14_Witness ==
  \E p \in Procs :
    /\ proc[p].pc = "done" /\ proc[p].kind = "auth" /\ proc[p].result = "ok"
    /\ proc[p].seedSaves = 1 /\ proc[p].lockSaves = 1 /\ proc[p].net = 1
    /\ proc[p].tok = <<2, 2>>
    /\ cache.st = "ok" /\ cache.rt = 2 /\ live = 2 /\ cache.exp = now + 300

\* values FITBIT_REFRESH_TOKEN may have: unset, the bootstrap token, another
AltEnv == {None, 1, 2}

\* C15: once the cache file exists, a fitbit_auth / pull_fitbit_steps
\* invocation does not depend on FITBIT_REFRESH_TOKEN: the seeding step
\* decides the same for every value (set, changed or unset) and goes on to
\* the lock without writing, and the request that follows carries the
\* cache's refresh token.
C15_ConfigIgnored ==
  [][\A p \in Procs :
       /\ (calls' = calls + 1 /\ proc'[p] # proc[p] /\ proc'[p].kind \in SeedOnce /\ Exists(cache))
            => /\ \A e \in AltEnv :
                    SeedPlan(proc'[p].kind, cache, e) = SeedPlan(proc'[p].kind, cache, env)
               /\ proc'[p].pc = "acquire"
       /\ (proc[p].pc = "acquire" /\ proc'[p].pc = "sent" /\ proc[p].kind \in SeedOnce
             /\ Exists(proc[p].start))
            => (proc'[p].req = cache.rt /\ proc[p].seedSaves = 0)]_vars

\* with FITBIT_REFRESH_TOKEN unset, a seed-once invocation has refreshed
\* from the existing cache and returned
C15_Witness ==
  \E p \in Procs :
    /\ env = None /\ proc[p].pc = "done" /\ proc[p].kind \in SeedOnce
    /\ proc[p].result = "ok" /\ proc[p].net = 1 /\ proc[p].seedSaves = 0
    /\ cache.rt = live /\ live > 1

\* C16: an invocation sends at most one refresh request.
C16_AtMostOneRequest == \A p \in Procs : proc[p].net <= 1

\* an invocation whose one request was rejected has ended with the error
C16_Witness ==
  \E p \in Procs :
    /\ proc[p].pc = "done" /\ proc[p].net = 1 /\ proc[p].lockSaves = 0
    /\ proc[p].result \in {"RefreshRejected", "NetworkError"}

\* C17 as stated: an invocation completes save_token_cache at most once.
C17_OneRewriteAsStated == \A p \in Procs : proc[p].seedSaves + proc[p].lockSaves <= 1

\* C17 amended: an invocation completes save_token_cache at most once in the
\* seeding step and at most once inside the critical section, the latter
\* only after its one refresh request.
C17_OneRewritePerPhase ==
  \A p \in Procs :
    /\ proc[p].seedSaves <= 1
    /\ proc[p].lockSaves <= 1
    /\ proc[p].lockSaves = 1 => proc[p].net = 1

\* an invocation has ended after rewriting the cache file twice: the seed
\* and the refreshed record
C17_Witness ==
  \E p \in Procs :
    /\ proc[p].pc = "done" /\ proc[p].seedSaves = 1 /\ proc[p].lockSaves = 1
    /\ proc[p].writes = 2 /\ proc[p].csWrites = 1

\* the results of an invocation that ended inside the critical section
InLockResults ==
  {"ok", "CacheMissing", "JSONDecodeError", "MissingRefreshToken", "RefreshRejected",
   "NetworkError", "IncompleteRefreshResponse", "FileNotFoundError", "MissingAccountId"}

\* C18: an invocation that has ended, by returning or by an error raised
\* inside the critical section, has left no marker: the marker never names
\* a process whose invocation has ended.
C18_ReleasedOnExit ==
  \A p \in Procs :
    (proc[p].pc = "done" /\ proc[p].result \in InLockResults) => lock # p

\* an invocation failed on the last check, after its save, and the marker is
\* gone
C18_Witness ==
  \E p \in Procs :
    /\ proc[p].pc = "done" /\ proc[p].result = "MissingAccountId" /\ proc[p].lockSaves = 1
    /\ lock = Free

\* C19 as stated (P4): while one invocation holds the lock, another sends no
\* refresh request, does not write the cache file and does not enter the
\* critical section.
C19_BlockedUntilRelease ==
  [][\A p, q \in Procs :
       (p # q /\ lock = q /\ HoldsLock(q))
         => /\ proc'[p].net <= proc[p].net
            /\ proc'[p].writes <= proc[p].writes
            /\ proc'[p].pc \notin {"sent", "save_write", "save_replace"}]_vars

\* C20: FileLock.acquire gives up only when the marker exists and more than
\* the timeout has passed since it started polling, and then it always does;
\* the invocation that timed out has sent no request, written nothing, and
\* the marker of the other process is still there.
C20_LockTimeout ==
  [][\A p \in Procs :
       /\ (proc[p].pc = "acquire" /\ proc'[p].pc = "done" /\ proc'[p].result = "LockTimeout")
            => /\ lock # Free /\ lock # p /\ lock' = lock
               /\ now - proc[p].tAcq > 60
               /\ proc'[p].net = 0 /\ proc'[p].lockSaves = 0 /\ cache' = cache
       /\ (proc[p].pc = "acquire" /\ proc'[p].pc \in {"sent", "done"}
             /\ ~CanCreate(lock) /\ now - proc[p].tAcq > 60)
            => proc'[p].result = "LockTimeout"]_vars

\* an invocation timed out while the other still has its request out
C20_Witness ==
  \E p, q \in Procs :
    /\ p # q /\ proc[p].pc = "done" /\ proc[p].result = "LockTimeout" /\ proc[p].net = 0
    /\ lock = q /\ proc[q].pc = "sent"

Unparseable(f) == f.st \in {"empty", "garbled"}

\* C22 as stated: when the cache file exists and cannot be parsed, an
\* invocation (fitbit_auth, pull_fitbit_steps, pull_fitbit_heart) goes to the
\* lock without writing, fails there with the error of the unreadable cache,
\* sends no request and leaves the cache file as it was.
C22_CorruptCacheFails ==
  [][\A p \in Procs :
       /\ (calls' = calls + 1 /\ proc'[p] # proc[p] /\ Unparseable(cache))
            => (proc'[p].pc = "acquire" /\ cache' = cache)
       /\ (proc[p].pc = "acquire" /\ CanCreate(lock) /\ proc'[p].pc \notin {"acquire", "crashed"}
             /\ Unparseable(cache))
            => /\ proc'[p].pc = "done"
               /\ proc'[p].result \in {"JSONDecodeError", "CacheMissing"}
               /\ proc'[p].net = 0
               /\ cache' = cache]_vars

\* C23: when the record loaded inside the lock needs a refresh (no
\* access_token, no or unparseable expires_at, or now >= expires_at - 120 s)
\* and has no refresh_token, the invocation fails with MissingRefreshToken,
\* having sent no request and written nothing: the cache file is unchanged
\* and the marker is removed.
C23_MissingRefreshToken ==
  [][\A p \in Procs :
       (proc[p].pc = "acquire" /\ CanCreate(lock) /\ proc'[p].pc \notin {"acquire", "crashed"}
          /\ cache.st = "ok" /\ cache.rt = None
          /\ (cache.at = None \/ cache.exp = None \/ cache.exp = BadExp \/ now >= cache.exp - 120))
         => /\ proc'[p].pc = "done"
            /\ proc'[p].result = "MissingRefreshToken"
            /\ proc'[p].net = 0
            /\ proc'[p].csWrites = 0 /\ proc'[p].lockSaves = 0
            /\ cache' = cache
            /\ lock' = Free]_vars

\* a fitbit_auth invocation found, 120 s before its expiry, a record with an
\* access token and no refresh token, and failed; the file is as it was
C23_Witness ==
  \E p \in Procs :
    /\ proc[p].pc = "done" /\ proc[p].kind = "auth" /\ proc[p].result = "MissingRefreshToken"
    /\ proc[p].net = 0 /\ proc[p].writes = 0
    /\ cache = NoRefreshRecord /\ now = NoRefreshRecord.exp - 120 /\ lock = Free

\* C24: when the cache file is absent and FITBIT_REFRESH_TOKEN is not set, an
\* invocation fails at once with MissingBootstrapToken: it creates no cache
\* file (and no temporary file), sends no request and never touches the
\* lock.
C24_MissingBootstrapToken ==
  [][\A p \in Procs :
       (calls' = calls + 1 /\ proc'[p] # proc[p] /\ ~Exists(cache) /\ env = None)
         => /\ proc'[p].pc = "done"
            /\ proc'[p].result = "MissingBootstrapToken"
            /\ proc'[p].net = 0 /\ proc'[p].writes = 0
            /\ cache' = cache /\ tmp' = tmp /\ lock' = lock]_vars

\* both invocations have failed for want of the bootstrap token; there is
\* still no cache file and the provider has issued nothing
C24_Witness ==
  /\ env = None /\ ~Exists(cache) /\ ~Exists(tmp) /\ issued = 1 /\ lock = Free
  /\ \A p \in Procs : proc[p].pc = "done" /\ proc[p].result = "MissingBootstrapToken"
                        /\ proc[p].net = 0
  /\ \E p \in Procs : proc[p].kind = "auth"

\* C25: whenever an invocation returns, the pair it returns has an access
\* token and an account id, both present; an invocation that ends with an
\* error returns nothing; and when neither the record loaded inside the lock
\* nor the refresh response has a user_id, the invocation ends with
\* MissingAccountId, with or without a refresh.
C25_PairOrMissingAccountId ==
  [][\A p \in Procs :
       /\ (proc[p].pc # "done" /\ proc'[p].pc = "done")
            => IF proc'[p].result = "ok"
               THEN proc'[p].tok[1] # None /\ proc'[p].tok[2] # None
               ELSE proc'[p].tok = NoTok
       /\ (proc[p].pc = "save_replace" /\ proc'[p].pc = "done" /\ Exists(tmp)
             /\ proc[p].rsp.uid = None /\ proc[p].loaded.uid = None)
            => proc'[p].result = "MissingAccountId"
       /\ (proc[p].pc = "acquire" /\ CanCreate(lock) /\ proc'[p].pc = "done"
             /\ cache.st = "ok" /\ WellBeyondMargin(cache, now) /\ cache.uid = None)
            => (proc'[p].result = "MissingAccountId" /\ proc'[p].net = 0)]_vars

\* the cache holds a usable access token and no user_id: an invocation
\* found it valid, sent nothing and failed with MissingAccountId
C25_Witness ==
  \E p \in Procs :
    /\ proc[p].pc = "done" /\ proc[p].result = "MissingAccountId" /\ proc[p].tok = NoTok
    /\ proc[p].net = 0 /\ proc[p].writes = 0
    /\ WellBeyondMargin(cache, now) /\ cache.uid = None

Needed(s) == IF s = "sleep" THEN Cardinality(Days) ELSE 1

\* C26: in every pull job upsert_to_parquet is entered only with an access
\* token and after every fetch of the run succeeded; only a job inside
\* upsert_to_parquet changes a Parquet file, and only that of its source; a
\* job whose token acquisition or fetch fails exits with status 1 in that
\* step, and no Parquet file changes.
C26_UpsertLast ==
  [][\A j \in Jobs :
       /\ (job[j].pc # "load" /\ job'[j].pc = "load")
            => /\ job'[j].at # None
               /\ ~job'[j].fetchFailed
               /\ job'[j].fetched = Needed(job'[j].src)
       /\ (job'[j] # job[j] /\ store' # store)
            => /\ job[j].pc = "copy"
               /\ \A s \in Sources \ {job[j].src} : store'[s] = store[s]
       /\ (job[j].pc \in {"token", "persist", "fetch"} /\ job'[j].pc = "exit")
            => /\ job'[j].status = "1"
               /\ job'[j].err \in {"token", "fetch"}
               /\ ~job'[j].wrote
               /\ store' = store
       /\ (job'[j].pc = "exit" /\ job'[j].status = "0") => job'[j].wrote]_vars

\* a sleep job whose second fetch failed has exited with status 1; the sleep
\* file written by the run before it is there
C26_Witness ==
  \E i, j \in Jobs :
    /\ i # j
    /\ job[i].pc = "exit" /\ job[i].src = "sleep" /\ job[i].status = "0" /\ job[i].rows # <<>>
    /\ job[j].pc = "exit" /\ job[j].src = "sleep" /\ job[j].status = "1"
    /\ job[j].err = "fetch" /\ job[j].fetched = 1
    /\ store["sleep"] = Stamped(job[i].rows, job[i].t)

\* the keys of a list of incoming rows
KeysOf(rows) == {rows[i][1] : i \in DOMAIN rows}

\* every row a Parquet file can hold
AllRows == [key : Days, val : Vals \cup {10}, ing : 0 .. MaxRuns + 1]

RowsOfKey(b, k) == BagCardinality([r \in {x \in BagToSet(b) : x.key = k} |-> b[r]])

\* C28 as stated: every Parquet file holds at most one row per key.
C28_OneRowPerKey ==
  \A s \in Sources : \A k \in Days : RowsOfKey(store[s], k) <= 1

\* C29 as stated: a refresh token that one request has used up is never sent
\* again by a Withings pull job (two requests carry the same token only when
\* the provider refused the earlier one without rotating), and when two
\* Withings jobs have finished, no answer having been lost, the
\* WITHINGS_REFRESH_TOKEN of .env is the provider's live refresh token.
C29_WithingsRotation ==
  /\ \A m, n \in DOMAIN wsent :
       (m < n /\ wsent[m].rt = wsent[n].rt) => ~wsent[n].dead
  /\ (/\ wenv # None
      /\ \A n \in DOMAIN wsent : ~wsent[n].lost
      /\ \A j \in Jobs : job[j].pc = "exit" /\ job[j].src = "weight")
       => wenv = wlive

\* a process died between the provider's answer to its refresh request and
\* the end of save_token_cache
Stranded(q) == proc[q].pc = "crashed" /\ proc[q].resp = "ok_complete"

\* the marker names a process that died holding the lock
StaleMarker == lock # Free /\ proc[lock].pc = "crashed"

\* C31 as stated: after a process died between the provider's acceptance of
\* its refresh request and the end of save_token_cache, the cache file holds
\* a refresh token that is not the live one, and every get_valid_access_token
\* invocation that ends afterwards while the cached token needs a refresh
\* ends with RefreshRejected and leaves the cache file as it was.
C31_StrandedToken ==
  [][\A p, q \in Procs :
       Stranded(q)
         => /\ ~(cache.st = "ok" /\ cache.rt = live)
            /\ (Active(p) /\ proc'[p].pc = "done" /\ NeedsRefresh(cache, now))
                 => (proc'[p].result = "RefreshRejected" /\ cache' = cache)]_vars

\* C32 as stated: while the marker of a process that died holding the lock
\* is there, no step removes it, every invocation that begins goes straight
\* to FileLock.acquire without touching the cache file, and every invocation
\* that polls ends with LockTimeout, having sent no request and written
\* nothing.
C32_StaleMarker ==
  [][\A p \in Procs :
       StaleMarker
         => /\ lock' = lock
            /\ (proc[p].pc \in {"idle", "done"} /\ proc'[p].pc # proc[p].pc)
                 => proc'[p].pc = "acquire"
            /\ (proc[p].pc = "acquire" /\ proc'[p].pc \notin {"acquire", "crashed"})
                 => /\ proc'[p].pc = "done" /\ proc'[p].result = "LockTimeout"
                    /\ proc'[p].net = 0 /\ proc'[p].writes = proc[p].writes
                    /\ cache' = cache]_vars

\* a fitbit_auth invocation at FileLock.acquire is about to take the
\* valid-read path: the marker is free, the cache file holds a record with an
\* access token whose expiry is beyond the safety margin
ValidRead(p) ==
  /\ proc[p].pc = "acquire" /\ proc[p].kind = "auth" /\ CanCreate(lock)
  /\ WellBeyondMargin(cache, now)

\* C34 as stated: on the valid-read path a fitbit_auth invocation leaves the
\* cache file, the temporary file and the provider's tokens unchanged, sends
\* no request, acquires and releases the lock, and returns the cached
\* (access_token, account_id).
C34_ValidReadAsStated ==
  [][\A p \in Procs :
       (ValidRead(p) /\ proc'[p].pc \notin {"acquire", "crashed"})
         => /\ cache' = cache /\ tmp' = tmp /\ live' = live /\ issued' = issued
            /\ proc'[p].net = proc[p].net /\ proc'[p].writes = proc[p].writes
            /\ lock' = Free /\ ~proc'[p].relMiss
            /\ proc'[p].pc = "done" /\ proc'[p].result = "ok"
            /\ proc'[p].tok = <<cache.at, cache.uid>>]_vars

\* C34 amended: on the valid-read path a fitbit_auth invocation leaves the
\* cache file, the temporary file and the provider's tokens unchanged, sends
\* no request, acquires and releases the lock, and returns the cached
\* (access_token, account_id) when the cached record has an account id; when
\* it has none the invocation raises MissingAccountId, with the same frame.
C34_ValidRead ==
  [][\A p \in Procs :
       (ValidRead(p) /\ proc'[p].pc \notin {"acquire", "crashed"})
         => /\ cache' = cache /\ tmp' = tmp /\ live' = live /\ issued' = issued
            /\ proc'[p].net = proc[p].net /\ proc'[p].writes = proc[p].writes
            /\ lock' = Free /\ ~proc'[p].relMiss
            /\ proc'[p].pc = "done"
            /\ IF cache.uid # None
               THEN proc'[p].result = "ok" /\ proc'[p].tok = <<cache.at, cache.uid>>
               ELSE proc'[p].result = "MissingAccountId" /\ proc'[p].tok = NoTok]_vars

\* a fitbit_auth invocation has returned the cached pair of a record that is
\* still beyond the margin, without a request and without a write
C34_Witness ==
  \E p \in Procs :
    /\ proc[p].pc = "done" /\ proc[p].kind = "auth" /\ proc[p].result = "ok"
    /\ proc[p].net = 0 /\ proc[p].writes = 0
    /\ WellBeyondMargin(cache, now) /\ proc[p].tok = <<cache.at, cache.uid>>
    /\ lock = Free

\* C35 as stated: release() by a process whose FileLock does not hold the
\* lock (the marker it created is gone, or is another process's by now)
\* leaves the lock as it is: it does not remove the other's marker.
C35_ReleaseOwnHold ==
  [][\A p \in Procs :
       (HoldsLock(p) /\ proc'[p].pc = "done" /\ lock # p) => lock' = lock]_vars

\* C33: every fitbit_auth.get_valid_access_token invocation terminates, by
\* returning or by raising (or the process is killed): FileLock.acquire
\* obtains the marker or raises once the timeout has elapsed, also when the
\* marker is that of a dead process, and nothing in the critical section
\* repeats.
C33_Terminates == \A p \in Procs : Active(p) ~> ~Active(p)

\* an invocation has ended with LockTimeout on the marker of a dead process
C33_Witness ==
  \E p \in Procs :
    /\ proc[p].pc = "done" /\ proc[p].result = "LockTimeout"
    /\ StaleMarker

\* C36: a Withings refresh that is answered with a refresh token other than
\* the one sent writes the new token to .env and to the process environment
\* before refresh_access_token returns (also when main() then fails for want
\* of an access token); a refresh that fails leaves .env as it was; a process
\* that starts takes its refresh token from .env, and the token a refresh
\* request carries is the one of the process environment.
C36_WithingsPersist ==
  [][\A j \in Jobs :
       /\ (job[j].pc = "persist" /\ job'[j].pc # "persist"
             /\ job[j].body.rt # None /\ job[j].body.rt # job[j].rt)
            => (wenv' = job[j].body.rt /\ job'[j].rt = job[j].body.rt)
       /\ (job[j].pc = "token" /\ job[j].src = "weight" /\ job'[j].pc = "exit")
            => wenv' = wenv
       /\ (~Running(j) /\ job'[j].pc = "token" /\ job'[j].src = "weight")
            => job'[j].rt = wenv
       /\ (job[j].pc = "token" /\ job[j].src = "weight" /\ job'[j].pc # "token"
             /\ Len(wsent') > Len(wsent))
            => wsent'[Len(wsent')].rt = job[j].rt]_vars

\* a second Withings run has sent the token that the first run's refresh
\* wrote to .env, and it was the live one
C36_Witness ==
  \E n \in DOMAIN wsent :
    /\ n > 1 /\ wsent[n].rt # wsent[1].rt /\ ~wsent[n].dead
    /\ \E j \in Jobs : job[j].pc = "exit" /\ job[j].src = "weight" /\ job[j].status = "0"

\* the lines of a file that begin with key and the separator
HitLines(file, key) ==
  LET L == ReadLines(file)
  IN {i \in DOMAIN L : Len(L[i]) > Len(key) /\ SubSeq(L[i], 1, Len(key) + 1) = key \o <<"=">>}

\* C37: update_env_value(key, value) keeps every line that does not start
\* with "key=" as it is and where it is, replaces every line that starts with
\* "key=" by "key=value", appends "key=value" when there is no such line, and
\* a second call with the same arguments leaves the file as the first call
\* left it.
C37_UpdateEnvValue ==
  \A n \in DOMAIN edits :
    LET e == edits[n]
        L == ReadLines(e.before)
        M == ReadLines(e.after)
        hits == HitLines(e.before, e.key)
        kv == e.key \o <<"=">> \o e.value
    IN /\ e.after.st = "ok"
       /\ Len(M) = IF hits = {} THEN Len(L) + 1 ELSE Len(L)
       /\ \A i \in DOMAIN L : M[i] = IF i \in hits THEN kv ELSE L[i]
       /\ hits = {} => M[Len(M)] = kv
       /\ UpdateEnv(e.after, e.key, e.value) = e.after
       /\ (n < Len(edits) /\ edits[n + 1].key = e.key /\ edits[n + 1].value = e.value)
            => edits[n + 1].after = e.after

\* the same call made twice on a file with a line of the key and another line
C37_Witness ==
  \E n \in DOMAIN edits :
    /\ n < Len(edits)
    /\ edits[n + 1].key = edits[n].key /\ edits[n + 1].value = edits[n].value
    /\ HitLines(edits[n].before, edits[n].key) # {}
    /\ HitLines(edits[n].before, edits[n].key) # DOMAIN ReadLines(edits[n].before)
    /\ edits[n].after # edits[n].before

\* a Parquet file without ingested_at: how many rows hold each key and value
PlainBag(b) ==
  [kv \in {<<r.key, r.val>> : r \in BagToSet(b)} |->
     BagCardinality([r \in {x \in BagToSet(b) : <<x.key, x.val>> = kv} |-> b[r]])]

\* the table raw_withings_weight without ingested_at
PlainSet(table) == {<<r.key, r.val>> : r \in table}

\* C38: applying an upsert twice with the same incoming rows leaves the store
\* with the same keys, the same number of rows and the same values outside
\* ingested_at as applying it once, for upsert_to_parquet and for
\* weight_pull.upsert_weights: of two calls in a row with the same argument
\* the second leaves what the first left, and so would a second call after any
\* call on the store as it is.
C38_UpsertIdempotent ==
  /\ \A n \in DOMAIN ups :
       (n < Len(ups) /\ ups[n + 1].fn = ups[n].fn /\ ups[n + 1].arg = ups[n].arg)
         => /\ ups[n + 1].before = ups[n].after
            /\ ups[n].fn = "upsert_to_parquet"
                 => PlainBag(ups[n + 1].after) = PlainBag(ups[n].after)
            /\ ups[n].fn = "upsert_weights"
                 => /\ PlainSet(ups[n + 1].after) = PlainSet(ups[n].after)
                    /\ Cardinality(ups[n + 1].after) = Cardinality(ups[n].after)
  /\ \A groups \in WeightAnswers :
       LET rows == ExtractWeightRows(groups)
           once == Merged(store["weight"], rows, stamp + 1)
           first == MergeInto(wdb, rows, stamp + 1, engine).table
           second == MergeInto(first, rows, stamp + 2, engine).table
       IN /\ PlainBag(Merged(once, rows, stamp + 2)) = PlainBag(once)
          /\ PlainSet(second) = PlainSet(first)
          /\ Cardinality(second) = Cardinality(first)

\* upsert_weights called twice with the same groups on a table that held one
\* of their keys with another value: the second call changed ingested_at only
C38_Witness ==
  \E n \in DOMAIN ups :
    /\ n < Len(ups)
    /\ ups[n].fn = "upsert_weights" /\ ups[n + 1].fn = "upsert_weights"
    /\ ups[n + 1].arg = ups[n].arg
    /\ ups[n].ok /\ ups[n + 1].ok
    /\ \E r \in ups[n].before : \E q \in ups[n].after : q.key = r.key /\ q.val # r.val
    /\ ups[n + 1].after # ups[n].after

\* the bootstrap run has exchanged the code in this step
Exchanged == boot'.result \in {"ExchangeFailed", "NoRefreshToken", "saved"} /\ boot.pc = "check"

\* C39: the Fitbit bootstrap exchanges a code and writes FITBIT_REFRESH_TOKEN
\* to .env only if the state of the callback request that delivered the code
\* equals the state generated for the run; on a state mismatch, a callback
\* error or a token response without refresh_token it raises and leaves .env
\* unchanged.
C39_FitbitBootstrap ==
  [][boot.who = "fitbit" =>
       /\ (Exchanged \/ env' # env \/ boot'.uid # boot.uid)
            => boot.cbstate = boot.state /\ boot.code # "" /\ boot.error = ""
       /\ env' # env => boot'.result = "saved"
       /\ (boot.pc = "check" /\ boot.error # "")
            => boot'.result = "AuthError" /\ env' = env /\ boot'.uid = boot.uid
       /\ (boot.pc = "check" /\ boot.error = "" /\ boot.cbstate # boot.state)
            => boot'.result = "StateMismatch" /\ env' = env /\ boot'.uid = boot.uid
       /\ boot'.result \in {"NoRefreshToken", "ExchangeFailed", "NoCode"}
            => env' = env /\ boot'.uid = boot.uid]_vars

\* a run that saved the token and the user id after two requests
C39_Witness ==
  /\ boot.who = "fitbit" /\ boot.result = "saved"
  /\ boot.handled = 2
  /\ env = 2 /\ boot.uid = "u1"
  /\ boot.cbstate = boot.state

\* C40 as stated: the Withings bootstrap exchanges a code and writes
\* WITHINGS_REFRESH_TOKEN to .env only if the state parameter of the callback
\* equals the expected state; a callback whose state is missing or different
\* ends the run with an error and leaves .env unchanged.
C40_WithingsBootstrap ==
  [][boot.who = "withings" =>
       /\ (Exchanged \/ wenv' # wenv) => boot.cbstate = WithingsState
       /\ (boot.pc = "check" /\ boot.cbstate # WithingsState)
            => boot'.result \in {"CallbackError", "NoCode"} /\ wenv' = wenv]_vars

====
